---- MODULE Spec2Model ----
(***************************************************************************)
(* TOM v3.0 realtime voice gateway: the dispatcher FSM (rt_fsm.py), the    *)
(* gateway's JWT validation, connection lifecycle and frame loop           *)
(* (ws_realtime.py) and the shared provider adapter                        *)
(* (provider_realtime.py).                                                 *)
(*                                                                         *)
(* Each subsystem has its own specification (SpecFSM, SpecJwt, SpecGw,     *)
(* SpecFrames); a specification leaves the other subsystems' variables at  *)
(* their initial values.                                                   *)
(***************************************************************************)
EXTENDS Integers, Sequences, FiniteSets, TLC

\* Python's None.
None == "None"

(***************************************************************************)
(* State                                                                   *)
(***************************************************************************)

\* Dispatcher FSM (Part 1).
VARIABLES
    sessions,       \* RealtimeFSM.sessions: dict call_id -> reference of a CallSession
    callSessions,   \* the CallSession objects ever constructed, by reference (1..n)
    rewardPushes,   \* per CallSession object: calls of update_policy_reward made for it
    cleanupTasks,   \* per call_id: pending _cleanup_session tasks (asyncio.create_task)
    fsmLast,        \* the last FSM operation called: [op, call_id, event]
    fsmRet          \* what the last handle_event returned

fsmVars == <<sessions, callSessions, rewardPushes, cleanupTasks, fsmLast, fsmRet>>

\* JWT validation (Part 2).
VARIABLES
    now,        \* time.time(), in seconds
    redis,      \* the nonce keys of the shared Redis: key -> time at which it expires
    vpc,        \* per validation in flight: "idle" or "setnx" (claims checked, SET not yet done)
    vtoken,     \* per validation in flight: the payload being validated
    vret,       \* per validator: what its last _validate_jwt returned: "True",
                \* "False", or "False:replay" for the return after "JWT Replay
                \* detected"; "None" before any
    accepts     \* per nonce: the latest validation that returned True,
                \* [payload, at, replays]; replays counts the earlier
                \* acceptances of the same payload

jwtVars == <<now, redis, vpc, vtoken, vret, accepts>>

\* Gateway connection lifecycle (Part 3).
VARIABLES
    devAllowNoJwt,   \* the module constant DEV_ALLOW_NO_JWT of this process
    cpc,             \* per connection: where its handle_client coroutine stands
    ccall,           \* per connection: the call_id taken from its path
    ws,              \* per connection: its websocket, "none", "open" or "closed"
    wsCode,          \* per connection: the close code of its websocket, 0 while not closed
    sent,            \* per connection: the types of the events sent to the client
    authResult,      \* per connection: "ok" when its first frame carried a JWT that
                     \* _validate_jwt accepted, "failed" when the frame carried none
                     \* or one that was refused, "none" before and otherwise
    gwSessions,      \* the Session objects, by the connection that constructed them
    active_sessions, \* RealtimeWSGateway.active_sessions: call_id -> Session
    provider,        \* RealtimeWSGateway.provider, the one RealtimeProvider object
    calls_active,    \* the gauge tom_calls_active
    gwLast           \* the last step taken: [conn, op]

gwVars == <<devAllowNoJwt, cpc, ccall, ws, wsCode, sent, authResult, gwSessions,
            active_sessions, provider, calls_active, gwLast>>

\* Frame loop of one connection (Part 4); its clock is `now`.
VARIABLES
    rate_limits,      \* RealtimeWSGateway.rate_limits[client_id]: deque of timestamps
    rate_limit_bytes, \* RealtimeWSGateway.rate_limit_bytes[client_id]: deque of <<timestamp, size>>
    fpc,              \* where the loop stands: "loop", "sleeping" (asyncio.sleep) or "done"
    sleep_until,      \* the time at which the sleep in progress ends
    fws,              \* the connection's websocket: "open" or "closed"
    fsent,            \* the events sent to the client, in order
    passed,           \* per time: the frames that got past the message-rate gate then
    handled,          \* per frame size: the frames given to session.handle_event
    forwarded,        \* per frame size: the frames given to the provider's send_audio
    fLast,            \* the last step: [op, size, kind, outcome]
    framesSeen,       \* single frames received so far
    flooded           \* the client has sent its opening burst

frameVars == <<rate_limits, rate_limit_bytes, fpc, sleep_until, fws, fsent, passed,
               handled, forwarded, fLast, framesSeen, flooded>>

\* Event handling of one Session (Part 5).
VARIABLES
    spc,          \* "loop": the frame loop is between frames; "pump": it is inside
                  \* process_provider_events; "done": the connection has ended
    sInbox,       \* the client frames received and not yet read by the loop
    sReceived,    \* all client frames received, in order
    sDispatched,  \* the client frames given to Session.handle_event, in order
    sStreamOpen,  \* the provider's websocket is open
    sStream,      \* the events the Realtime Session emitted that recv() has not yet yielded
    sEmitted,     \* all events the Realtime Session emitted, in order
    sForwarded,   \* the provider events sent to the client, in order
    sFed,         \* the provider events the FSM has processed, in order
    sCalls        \* the calls the last handler made, in order

sessVars == <<spc, sInbox, sReceived, sDispatched, sStreamOpen, sStream, sEmitted,
              sForwarded, sFed, sCalls>>

\* Barge-in cancellation of the output of a turn (Part 6).
VARIABLES
    wsBuffer,     \* provider: messages that arrived on the websocket, not yet read
    pTurn,        \* provider: how many times cancel() has returned
    pInterrupts,  \* provider: interrupt messages sent upstream
    audio_queue,  \* Piper: PiperTTSRealtime.audio_queue, each frame with its turn
    stop_event,   \* Piper: PiperTTSRealtime.stop_event
    tts_pc,       \* Piper: where synthesize_text is
    lTurn,        \* Piper: how many times stop() on barge-in has returned
    tEmitted      \* the events the two sessions have emitted, in order

turnVars == <<wsBuffer, pTurn, pInterrupts, audio_queue, stop_event, tts_pc, lTurn,
              tEmitted>>


\* Provider session with fallback (Part 7).
VARIABLES
    foNow,                 \* time.time(), whole seconds
    foOpens,               \* calls of open() on the wrapper so far
    foConnected,           \* the wrapper's own is_connected (LocalRealtimeSession base)
    foTasks,               \* VAD tasks the wrapper's base open() has created
    foProvider,            \* self.provider: is_connected, connection attempts made
    fallback_session,      \* 0 for None, else the number of the local session made
    current_backend,       \* self.current_backend
    error_count,           \* self.error_count
    error_times,           \* self.error_times, a deque of at most FALLBACK_ERROR_BURST
    last_failover_time,    \* self.last_failover_time
    backend_gauge,         \* tom_realtime_backend, by label
    failover_total,        \* tom_provider_failover_total
    foErrors,              \* times of the errors raised on the provider path
    foLast                 \* the last operation: its name, the backend before it,
                           \* the backend it worked on, what _failover_to_local did

foVars == <<foNow, foOpens, foConnected, foTasks, foProvider, fallback_session,
            current_backend, error_count, error_times, last_failover_time,
            backend_gauge, failover_total, foErrors, foLast>>


\* Deploy guard (Part 8).
VARIABLES
    active_variants,       \* DeployGuardFull.active_variants
    blacklisted_variants,  \* DeployGuardFull.blacklisted_variants
    dgStats,               \* what get_policy_stats() returns, by variant
    dgRet,                 \* the last call: its outcome and the two sets at its return
    dgDraw                 \* the values of _random.random() the last call drew, in order

dgVars == <<active_variants, blacklisted_variants, dgStats, dgRet, dgDraw>>


\* Policy bandit (Part 9).
VARIABLES
    banVariants,     \* PolicyBandit.variants: the ids registered
    alpha,           \* state.alpha by id, in twentieths
    beta,            \* state.beta by id, in twentieths
    total_rewards,   \* state.total_rewards by id, in tenths
    total_pulls,     \* state.total_pulls by id
    banSession,      \* the call in progress: its policy_variant and whether it is on
    banLast          \* the last operation on the bandit

banVars == <<banVariants, alpha, beta, total_rewards, total_pulls, banSession, banLast>>


\* Reward calculation (Part 10).
VARIABLES
    rwSignals,       \* the signals of the last calc_reward call
    rwReward,        \* what that call returned, in nine-hundredths
    rwCalls          \* how many times these signals have been passed (0 before any call)

rwVars == <<rwSignals, rwReward, rwCalls>>


\* State files (Part 11).
VARIABLES
    saveMem,         \* the in-memory state, by the number of its version (0 = defaults)
    savePrev,        \* the version the state file held when the save in progress began
    saveFile,        \* the state file: whether it exists, the version and the chunks of it written
    saveTmp,         \* the file `<path>.tmp` of save_state, likewise
    savePc,          \* the writer: "idle", "writing", "tmp_writing", "tmp_written" or "crashed"
    saveRead         \* what the last reader of the state file got

saveVars == <<saveMem, savePrev, saveFile, saveTmp, savePc, saveRead>>


\* Realtime FSM (Part 12): the SessionState of one call.
VARIABLES
    rtState,           \* session.state
    llm_tokens,        \* session.llm_tokens
    llm_response,      \* session.llm_response, by the number of tokens in it
    tts_frames,        \* session.tts_frames
    stt_timestamp,     \* session.stt_timestamp (0 when unset)
    first_token_time,  \* session.first_token_time (0 when unset)
    first_audio_time,  \* session.first_audio_time (0 when unset)
    llm_complete_time, \* session.llm_complete_time (0 when unset)
    rtSleepers,        \* the process_barge_in / process_error calls in their sleep, oldest first
    rtNow,             \* time.time(), counted in events
    rtLast             \* the last step of the FSM

rtVars == <<rtState, llm_tokens, llm_response, tts_frames, stt_timestamp,
            first_token_time, first_audio_time, llm_complete_time, rtSleepers, rtNow, rtLast>>


\* Audio buffer of a gateway session (Part 13).
VARIABLES
    audio_buffer,          \* Session.audio_buffer: the timestamps buffered, oldest first
    last_audio_time,       \* Session.last_audio_time
    abProvider,            \* whether Session.provider_session is set
    abSent,                \* the timestamps passed to provider_session.send_audio
    backpressure_total,    \* the backpressure counter of the gateway's metrics
    abChunks,              \* audio_chunk events handled so far
    abDecodeErrors,        \* how many of them held audio that is not base64
    abLast                 \* the last audio_chunk handled and how it ended

abVars == <<audio_buffer, last_audio_time, abProvider, abSent, backpressure_total,
            abChunks, abDecodeErrors, abLast>>


\* Replay protection of the telephony bridge (Part 14).
VARIABLES
    njPc,                  \* where each authenticate_jwt call stands
    njNonce,               \* the nonce of the token each call carries
    redisNonces,           \* the nonces whose key "nonce:<n>" exists in Redis
    njExpired              \* the nonces whose key has expired at some time

njVars == <<njPc, njNonce, redisNonces, njExpired>>

\* Per-connection token buckets of the telephony bridge (Part 15).
VARIABLES
    rate_limiters,         \* ConnectionManager.rate_limiters: connection id -> bucket or NoBucket
    tbNow,                 \* time.time(), in units of 1 / rate seconds
    tbFresh,               \* per connection: check calls since add_connection (counted up to
                           \* MAX_RATE_LIMIT + 1) while no time has elapsed, else -1
    tbLast                 \* the check_rate_limit call just made and what it returned

tbVars == <<rate_limiters, tbNow, tbFresh, tbLast>>

\* A LocalRealtimeSession and its VAD task (Part 16).
VARIABLES
    lrConnected,           \* LocalRealtimeSession.is_connected
    cancel_event,          \* whether LocalRealtimeSession.cancel_event is set
    vad_task,              \* the task running _vad_loop: "none", "running", "done", "failed"
    lrBuffer,              \* len(LocalRealtimeSession.audio_buffer)
    lrSilent,              \* whether more than silence_duration_ms have passed since last_audio_time
    lrStt,                 \* _run_stt tasks started so far
    lrCancelReturned,      \* whether cancel() has returned on the open session
    lrRaised               \* whether the last call of send_audio raised

lrVars == <<lrConnected, cancel_event, vad_task, lrBuffer, lrSilent, lrStt,
            lrCancelReturned, lrRaised>>

\* What each part leaves unchanged.
nonFsmVars == <<jwtVars, gwVars, frameVars, sessVars, turnVars, foVars, dgVars, banVars, rwVars, saveVars, rtVars, abVars, njVars, tbVars, lrVars>>
nonJwtVars == <<fsmVars, gwVars, frameVars, sessVars, turnVars, foVars, dgVars, banVars, rwVars, saveVars, rtVars, abVars, njVars, tbVars, lrVars>>
nonGwVars == <<fsmVars, now, vpc, vtoken, vret, accepts, frameVars, sessVars, turnVars, foVars, dgVars, banVars, rwVars, saveVars, rtVars, abVars, njVars, tbVars, lrVars>>
nonFrameVars == <<fsmVars, redis, vpc, vtoken, vret, accepts, gwVars, sessVars, turnVars, foVars, dgVars, banVars, rwVars, saveVars, rtVars, abVars, njVars, tbVars, lrVars>>
nonSessVars == <<fsmVars, jwtVars, gwVars, frameVars, turnVars, foVars, dgVars, banVars, rwVars, saveVars, rtVars, abVars, njVars, tbVars, lrVars>>
nonTurnVars == <<fsmVars, jwtVars, gwVars, frameVars, sessVars, foVars, dgVars, banVars, rwVars, saveVars, rtVars, abVars, njVars, tbVars, lrVars>>
nonFoVars == <<fsmVars, jwtVars, gwVars, frameVars, sessVars, turnVars, dgVars, banVars, rwVars, saveVars, rtVars, abVars, njVars, tbVars, lrVars>>
nonDgVars == <<fsmVars, jwtVars, gwVars, frameVars, sessVars, turnVars, foVars, banVars, rwVars, saveVars, rtVars, abVars, njVars, tbVars, lrVars>>
nonBanVars == <<fsmVars, jwtVars, gwVars, frameVars, sessVars, turnVars, foVars, dgVars, rwVars, saveVars, rtVars, abVars, njVars, tbVars, lrVars>>
nonRwVars == <<fsmVars, jwtVars, gwVars, frameVars, sessVars, turnVars, foVars, dgVars, banVars, saveVars, rtVars, abVars, njVars, tbVars, lrVars>>
nonSaveVars == <<fsmVars, jwtVars, gwVars, frameVars, sessVars, turnVars, foVars, dgVars, banVars, rwVars, rtVars, abVars, njVars, tbVars, lrVars>>
nonRtVars == <<fsmVars, jwtVars, gwVars, frameVars, sessVars, turnVars, foVars, dgVars, banVars, rwVars, saveVars, abVars, njVars, tbVars, lrVars>>
nonAbVars == <<fsmVars, jwtVars, gwVars, frameVars, sessVars, turnVars, foVars, dgVars, banVars, rwVars, saveVars, rtVars, njVars, tbVars, lrVars>>
nonNjVars == <<fsmVars, jwtVars, gwVars, frameVars, sessVars, turnVars, foVars, dgVars, banVars, rwVars, saveVars, rtVars, abVars, tbVars, lrVars>>
nonTbVars == <<fsmVars, jwtVars, gwVars, frameVars, sessVars, turnVars, foVars, dgVars, banVars, rwVars, saveVars, rtVars, abVars, njVars, lrVars>>
nonLrVars == <<fsmVars, jwtVars, gwVars, frameVars, sessVars, turnVars, foVars, dgVars, banVars, rwVars, saveVars, rtVars, abVars, njVars, tbVars>>

\* A Python dict is a function on its keys: the empty dict, d[k] = v and del d[k].
EmptyDict == [k \in {} |-> None]
DictSet(d, k, v) == [x \in DOMAIN d \cup {k} |-> IF x = k THEN v ELSE d[x]]
DictDel(d, k) == [x \in DOMAIN d \ {k} |-> d[x]]

(***************************************************************************)
(* Part 1: dispatcher FSM, apps/dispatcher/rt_fsm.py                       *)
(***************************************************************************)

\* Bounds of the FSM model.
MaxCallSessions == 2
MaxEvents == 4
MaxCleanupTasks == 1

CallIds == {"c1", "c2"}
PolicyVariants == {"v1a", "v2a"}

CallState == {"idle", "ringing", "connected", "listening", "thinking",
              "speaking", "barred", "ended"}
CallEvent == {"incoming_call", "call_answered", "call_ended", "audio_start",
              "audio_stop", "barge_in", "timeout", "error"}

\* A transition table in which the terminal state accepts a fresh incoming call.
transitionsEndedReopens ==
    [s \in CallState |->
        CASE s = "idle"      -> ("incoming_call" :> "ringing")
          [] s = "ringing"   -> ("call_answered" :> "connected" @@ "call_ended" :> "ended"
                                 @@ "timeout" :> "ended")
          [] s = "connected" -> ("audio_start" :> "listening" @@ "call_ended" :> "ended"
                                 @@ "error" :> "ended")
          [] s = "listening" -> ("audio_stop" :> "thinking" @@ "barge_in" :> "listening"
                                 @@ "call_ended" :> "ended" @@ "error" :> "ended")
          [] s = "thinking"  -> ("audio_start" :> "speaking" @@ "call_ended" :> "ended"
                                 @@ "error" :> "ended")
          [] s = "speaking"  -> ("audio_stop" :> "listening" @@ "barge_in" :> "listening"
                                 @@ "call_ended" :> "ended" @@ "error" :> "ended")
          [] s = "barred"    -> ("call_ended" :> "ended" @@ "error" :> "ended")
          [] s = "ended"     -> ("incoming_call" :> "ringing")]

\* RealtimeFSM.transitions: state -> (event -> next state).
transitions ==
    [s \in CallState |->
        CASE s = "idle"      -> ("incoming_call" :> "ringing")
          [] s = "ringing"   -> ("call_answered" :> "connected" @@ "call_ended" :> "ended"
                                 @@ "timeout" :> "ended")
          [] s = "connected" -> ("audio_start" :> "listening" @@ "call_ended" :> "ended"
                                 @@ "error" :> "ended")
          [] s = "listening" -> ("audio_stop" :> "thinking" @@ "barge_in" :> "listening"
                                 @@ "call_ended" :> "ended" @@ "error" :> "ended")
          [] s = "thinking"  -> ("audio_start" :> "speaking" @@ "call_ended" :> "ended"
                                 @@ "error" :> "ended")
          [] s = "speaking"  -> ("audio_stop" :> "listening" @@ "barge_in" :> "listening"
                                 @@ "call_ended" :> "ended" @@ "error" :> "ended")
          [] s = "barred"    -> ("call_ended" :> "ended" @@ "error" :> "ended")
          [] s = "ended"     -> << >>]

RECURSIVE SumLen(_)
SumLen(objs) == IF objs = << >> THEN 0 ELSE Len(Head(objs).events) + SumLen(Tail(objs))

\* Log entries written so far, over all sessions (what MaxEvents bounds).
LoggedEvents == SumLen(callSessions)

\* CallSession(call_id, context, policy_variant): state defaults to IDLE, the
\* event log to [], the context's barge_in_count to 0.
NewCallSession(call_id, policy_variant) ==
    [call_id |-> call_id, state |-> "idle", policy_variant |-> policy_variant,
     events |-> << >>, barge_in_count |-> 0]

\* _update_context: BARGE_IN increments the context's barge_in_count.
UpdateContext(session, event) ==
    IF event = "barge_in"
    THEN [session EXCEPT !.barge_in_count = @ + 1]
    ELSE session

\* handle_event, "if event == CallEvent.CALL_ENDED": the events that run
\* _handle_call_end (reward and cleanup timer).
EndsCall(event) == event = "call_ended"

\* A handle_event that logs the event before it looks the transition up.
handle_eventLogsFirst(call_id, event) ==
    /\ fsmLast' = [op |-> "handle_event", call_id |-> call_id, event |-> event]
    /\ UNCHANGED nonFsmVars
    /\ IF call_id \notin DOMAIN sessions
       THEN /\ fsmRet' = FALSE
            /\ UNCHANGED <<sessions, callSessions, rewardPushes, cleanupTasks>>
       ELSE LET ref == sessions[call_id]
                session == callSessions[ref]
                current_state == session.state
                logged == [session EXCEPT !.events = Append(@,
                              [event |-> event, from_state |-> current_state,
                               to_state |-> current_state])]
            IN  /\ LoggedEvents < MaxEvents
                /\ IF event \notin DOMAIN transitions[current_state]
                   THEN /\ fsmRet' = FALSE
                        /\ callSessions' = [callSessions EXCEPT ![ref] = logged]
                        /\ UNCHANGED <<sessions, rewardPushes, cleanupTasks>>
                   ELSE LET new_state == transitions[current_state][event]
                            moved == [session EXCEPT !.state = new_state,
                                         !.events = Append(@,
                                             [event |-> event,
                                              from_state |-> current_state,
                                              to_state |-> new_state])]
                        IN  /\ callSessions' =
                                   [callSessions EXCEPT ![ref] = UpdateContext(moved, event)]
                            /\ IF EndsCall(event)
                               THEN /\ cleanupTasks[call_id] < MaxCleanupTasks
                                    /\ rewardPushes' = [rewardPushes EXCEPT ![ref] = @ + 1]
                                    /\ cleanupTasks' = [cleanupTasks EXCEPT ![call_id] = @ + 1]
                               ELSE UNCHANGED <<rewardPushes, cleanupTasks>>
                            /\ fsmRet' = TRUE
                            /\ UNCHANGED sessions

\* RealtimeFSM.handle_event(call_id, event): unknown session or unlisted event
\* returns False with no effect; otherwise the transition, the log entry, the
\* context update and, for CALL_ENDED, _handle_call_end (reward pushed to the
\* bandit, cleanup task created).  The handler has no suspension point.
handle_event(call_id, event) ==
    /\ fsmLast' = [op |-> "handle_event", call_id |-> call_id, event |-> event]
    /\ UNCHANGED nonFsmVars
    /\ IF call_id \notin DOMAIN sessions
       THEN /\ fsmRet' = FALSE
            /\ UNCHANGED <<sessions, callSessions, rewardPushes, cleanupTasks>>
       ELSE LET ref == sessions[call_id]
                session == callSessions[ref]
                current_state == session.state
            IN  IF event \notin DOMAIN transitions[current_state]
                THEN /\ fsmRet' = FALSE
                     /\ UNCHANGED <<sessions, callSessions, rewardPushes, cleanupTasks>>
                ELSE LET new_state == transitions[current_state][event]
                         moved == [session EXCEPT !.state = new_state,
                                      !.events = Append(@,
                                          [event |-> event,
                                           from_state |-> current_state,
                                           to_state |-> new_state])]
                     IN  /\ LoggedEvents < MaxEvents
                         /\ callSessions' =
                                [callSessions EXCEPT ![ref] = UpdateContext(moved, event)]
                         /\ IF EndsCall(event)
                            THEN /\ cleanupTasks[call_id] < MaxCleanupTasks
                                 /\ rewardPushes' = [rewardPushes EXCEPT ![ref] = @ + 1]
                                 /\ cleanupTasks' = [cleanupTasks EXCEPT ![call_id] = @ + 1]
                            ELSE UNCHANGED <<rewardPushes, cleanupTasks>>
                         /\ fsmRet' = TRUE
                         /\ UNCHANGED sessions

\* RealtimeFSM.create_session(call_id): selects a policy variant, constructs a
\* CallSession and stores it under call_id, replacing whatever was there.
create_session(call_id) ==
    /\ Len(callSessions) < MaxCallSessions
    /\ \E policy_variant \in PolicyVariants :
          callSessions' = Append(callSessions, NewCallSession(call_id, policy_variant))
    /\ sessions' = DictSet(sessions, call_id, Len(callSessions) + 1)
    /\ rewardPushes' = Append(rewardPushes, 0)
    /\ fsmLast' = [op |-> "create_session", call_id |-> call_id, event |-> None]
    /\ UNCHANGED <<cleanupTasks, fsmRet>>
    /\ UNCHANGED nonFsmVars

\* RealtimeFSM._cleanup_session(call_id) once its sleep(delay) is over: deletes
\* whatever session is stored under call_id.
_cleanup_session(call_id) ==
    /\ cleanupTasks[call_id] > 0
    /\ cleanupTasks' = [cleanupTasks EXCEPT ![call_id] = @ - 1]
    /\ sessions' = DictDel(sessions, call_id)
    /\ fsmLast' = [op |-> "_cleanup_session", call_id |-> call_id, event |-> None]
    /\ UNCHANGED <<callSessions, rewardPushes, fsmRet>>
    /\ UNCHANGED nonFsmVars

FsmInit ==
    /\ sessions = EmptyDict
    /\ callSessions = << >>
    /\ rewardPushes = << >>
    /\ cleanupTasks = [c \in CallIds |-> 0]
    /\ fsmLast = [op |-> None, call_id |-> None, event |-> None]
    /\ fsmRet = FALSE

FsmCreate == \E call_id \in CallIds : create_session(call_id)
FsmEvent == \E call_id \in CallIds, event \in CallEvent : handle_event(call_id, event)
FsmCleanup == \E call_id \in CallIds : _cleanup_session(call_id)

FsmNext == FsmCreate \/ FsmEvent \/ FsmCleanup

(***************************************************************************)
(* Part 2: JWT validation with replay protection,                          *)
(* apps/telephony_bridge/ws_realtime.py, RealtimeWSGateway._validate_jwt   *)
(***************************************************************************)

JWT_MAX_TTL_SECONDS == 60
NONCE_TTL == 120

JWT_ISSUER == "tom_control_plane"
JWT_AUDIENCE == "tom_ws_gateway"

\* Bounds of the JWT model: the clock runs MaxTicks steps of TickStep seconds.
MaxTicks == 2
TickStep == JWT_MAX_TTL_SECONDS
StartTime == 10 * JWT_MAX_TTL_SECONDS
EndTime == StartTime + MaxTicks * TickStep

\* Two connection attempts validated concurrently (two gateway processes on
\* one Redis), both on the path of call "c1".
Validators == {"g1", "g2"}

\* The values iat and exp take in the tokens presented.
IatTimes == {StartTime, StartTime + TickStep}
ExpTimes == {StartTime + TickStep, EndTime}
Nonces == {"n1"}

\* The decoded payloads presented: a dict of the claims the token carries.
\* "sig" stands for the HS256 signature ("good" verifies under JWT_SECRET).
\* Any of iat, exp and nonce may be absent; of the other claims at most one is
\* wrong or absent.
Payloads ==
    LET opt(k, vals) == {EmptyDict} \cup {k :> v : v \in vals}
        good == ("sig" :> "good") @@ ("iss" :> JWT_ISSUER) @@ ("aud" :> JWT_AUDIENCE)
                @@ ("call_id" :> "c1")
        fixed == {good,
                  ("sig" :> "bad") @@ good,
                  ("call_id" :> "c2") @@ good,
                  DictDel(good, "iss"), DictDel(good, "aud"), DictDel(good, "call_id")}
    IN  {f @@ iat @@ exp @@ nonce :
            f \in fixed,
            iat \in opt("iat", IatTimes),
            exp \in opt("exp", ExpTimes),
            nonce \in opt("nonce", Nonces)}

\* payload.get(k): None when the claim is absent.
Has(payload, k) == k \in DOMAIN payload
Get(payload, k) == IF Has(payload, k) THEN payload[k] ELSE None

\* jwt.decode(token, JWT_SECRET, algorithms=['HS256']): the signature verifies.
DecodeOk(payload) == payload["sig"] = "good"

\* Python truthiness of payload.get(k) for a numeric claim: present and not 0.
Truthy(payload, k) == Has(payload, k) /\ payload[k] # 0

\* The claim checks of _validate_jwt up to the Redis call, at time t.
ClaimsPass(payload, call_id, t) ==
    /\ DecodeOk(payload)
    /\ Get(payload, "iss") = JWT_ISSUER
    /\ Get(payload, "aud") = JWT_AUDIENCE
    /\ Get(payload, "call_id") = call_id
    /\ ~((IF Has(payload, "exp") THEN payload["exp"] ELSE 0) < t)
    /\ ~(Truthy(payload, "iat") /\ Truthy(payload, "exp")
          /\ payload["exp"] - payload["iat"] > JWT_MAX_TTL_SECONDS)
    /\ ~(Truthy(payload, "iat") /\ t - payload["iat"] > JWT_MAX_TTL_SECONDS)
    /\ Has(payload, "nonce")

\* A Redis key exists at time t until its expiry time.
KeyLive(kv, key, t) == key \in DOMAIN kv /\ t < kv[key]

\* A plain SET: succeeds whether or not the key exists.
SetAlways(kv, key, t) == TRUE

\* redis_client.set(key, "1", nx=True, ex=120): truthy iff the key did not exist.
SetNxOk(kv, key, t) == ~KeyLive(kv, key, t)

\* The store after set(key, "1", nx=True, ex=120) at time t.
SetNx(kv, key, t) ==
    IF SetNxOk(kv, key, t) THEN DictSet(kv, key, t + NONCE_TTL) ELSE kv

\* The record of an accepted validation, kept per nonce.
Accepted(log, payload, at) ==
    LET key == payload["nonce"]
        before == IF key \in DOMAIN log /\ log[key].payload = payload
                  THEN log[key].replays + 1 ELSE 0
    IN  DictSet(log, key, [payload |-> payload, at |-> at, replays |-> before])

\* _validate_jwt, first part: decode and claim checks at the current time; a
\* token that fails returns False here.
ValidateClaims(v, payload, call_id) ==
    /\ vpc[v] = "idle"
    /\ IF ClaimsPass(payload, call_id, now)
       THEN /\ vpc' = [vpc EXCEPT ![v] = "setnx"]
            /\ vtoken' = [vtoken EXCEPT ![v] = payload]
            /\ UNCHANGED vret
       ELSE /\ vret' = [vret EXCEPT ![v] = "False"]
            /\ UNCHANGED <<vpc, vtoken>>
    /\ UNCHANGED <<now, redis, accepts>>
    /\ UNCHANGED nonJwtVars

\* _validate_jwt, second part: the atomic SET NX EX on the nonce key and the
\* return value.
ValidateSetNx(v) ==
    /\ vpc[v] = "setnx"
    /\ LET key == vtoken[v]["nonce"]
       IN  /\ redis' = SetNx(redis, key, now)
           /\ vret' = [vret EXCEPT ![v] =
                         IF SetNxOk(redis, key, now) THEN "True" ELSE "False:replay"]
           /\ accepts' = IF SetNxOk(redis, key, now)
                         THEN Accepted(accepts, vtoken[v], now)
                         ELSE accepts
    /\ vpc' = [vpc EXCEPT ![v] = "idle"]
    /\ vtoken' = [vtoken EXCEPT ![v] = EmptyDict]
    /\ UNCHANGED now
    /\ UNCHANGED nonJwtVars

\* _validate_jwt, "except Exception": the Redis call raises, the validation
\* returns False.
ValidateRedisError(v) ==
    /\ vpc[v] = "setnx"
    /\ vret' = [vret EXCEPT ![v] = "False"]
    /\ vpc' = [vpc EXCEPT ![v] = "idle"]
    /\ vtoken' = [vtoken EXCEPT ![v] = EmptyDict]
    /\ UNCHANGED <<now, redis, accepts>>
    /\ UNCHANGED nonJwtVars

\* Time passes; Redis drops the keys that have expired.  A validation is a
\* synchronous call: the clock step of TickStep seconds does not fall between
\* its claim checks and its Redis call.
Tick ==
    /\ now < EndTime
    /\ \A v \in Validators : vpc[v] = "idle"
    /\ now' = now + TickStep
    /\ redis' = [k \in {x \in DOMAIN redis : now' < redis[x]} |-> redis[k]]
    /\ UNCHANGED <<vpc, vtoken, vret, accepts>>
    /\ UNCHANGED nonJwtVars

JwtInit ==
    /\ now = StartTime
    /\ redis = EmptyDict
    /\ vpc = [v \in Validators |-> "idle"]
    /\ vtoken = [v \in Validators |-> EmptyDict]
    /\ vret = [v \in Validators |-> None]
    /\ accepts = EmptyDict

JwtValidate == \E v \in Validators, payload \in Payloads : ValidateClaims(v, payload, "c1")
JwtSetNx == \E v \in Validators : ValidateSetNx(v)
JwtRedisError == \E v \in Validators : ValidateRedisError(v)

JwtNext == JwtValidate \/ JwtSetNx \/ JwtRedisError \/ Tick

(***************************************************************************)
(* Part 3: connection lifecycle of the gateway,                            *)
(* apps/telephony_bridge/ws_realtime.py (handle_client, Session) and       *)
(* apps/realtime/provider_realtime.py (RealtimeProvider)                   *)
(*                                                                         *)
(* A step is the code a handle_client coroutine runs between two awaits    *)
(* that suspend it.  _validate_jwt makes a blocking Redis call, so a       *)
(* validation is one step of the gateway process.                          *)
(***************************************************************************)

\* Bound of the gateway model: interrupt messages sent to the provider.
MaxInterrupts == 2

\* The handle_client invocations of one gateway process.
Conns == {"k1", "k2"}

\* The nonces of the tokens presented to the gateway.
GwNonces == {"n1"}

\* The decoded payload of a well-formed token for call_id, fresh at StartTime.
GwToken(call_id, nonce) ==
    ("sig" :> "good") @@ ("iss" :> JWT_ISSUER) @@ ("aud" :> JWT_AUDIENCE)
    @@ ("call_id" :> call_id) @@ ("iat" :> StartTime)
    @@ ("exp" :> StartTime + TickStep) @@ ("nonce" :> nonce)

\* The tokens presented: well-formed ones for either call, and forged ones.
GwTokens ==
    {GwToken(call_id, nonce) : call_id \in CallIds, nonce \in GwNonces}
    \cup {("sig" :> "bad") @@ GwToken(call_id, nonce) :
              call_id \in CallIds, nonce \in GwNonces}

\* What the first recv() of a connection yields: no frame at all (the client
\* went away), a frame that is not JSON, a JSON object without "jwt", or a
\* JSON object carrying a token.
AuthFrames ==
    {[kind |-> "disconnect"], [kind |-> "garbage"], [kind |-> "nojwt"]}
    \cup {[kind |-> "jwt", token |-> t] : t \in GwTokens}

\* The admission checks of handle_client, in order; which of them refuses a
\* connection depends on the allowlists and on the connection history of the
\* client's address.
Gates == {"ok", "ip_allowlist", "origin", "conn_rate"}

\* The frames dispatched by Session.handle_event.
EventTypes == {"audio_chunk", "barge_in", "stop", "ping"}

\* Session.__init__.
NewSession(call_id) ==
    [call_id          |-> call_id,
     provider_session |-> None,
     open_called      |-> FALSE,   \* open_provider_session has run for it
     closedBy         |-> {},      \* the connections whose code called close() on it
     removedBy        |-> {}]      \* the connections whose teardown deleted its entry

\* _validate_jwt(token, call_id) as one call: the claim checks, then SET NX
\* on the nonce key; a Redis error makes it return False.
_validate_jwt(token, call_id, redis_ok) ==
    /\ ClaimsPass(token, call_id, now)
    /\ redis_ok
    /\ SetNxOk(redis, token["nonce"], now)

\* The gate of handle_client on the first frame:
\* `if not jwt_token or not self._validate_jwt(jwt_token, call_id)`.
AuthRejectsEitherWay(has_jwt, valid) == ~has_jwt /\ ~valid

AuthRejects(has_jwt, valid) == ~has_jwt \/ ~valid

\* RealtimeProvider.close(): the connection state after it.
ProviderClose(p) == [p EXCEPT !.is_connected = FALSE]

\* RealtimeProvider.cancel(): an interrupt is sent when connected.
ProviderCancel(p) ==
    IF p.is_connected THEN [p EXCEPT !.interrupts = @ + 1] ELSE p

\* RealtimeProvider.send_audio(): the frame goes out when connected; `from`
\* is the connection whose audio it is.
ProviderSendAudio(p, from) ==
    IF p.is_connected THEN [p EXCEPT !.audio_from = @ \cup {from}] ELSE p

\* Session.close() of the session constructed by `target`, called by the code
\* of connection `by`: the provider, the Session objects and the websockets
\* after it.
CloseProvider(target) ==
    IF gwSessions[target].provider_session # None THEN ProviderClose(provider)
    ELSE provider

CloseSessions(target, by) ==
    [gwSessions EXCEPT ![target].provider_session = None,
                       ![target].closedBy = @ \cup {by}]

CloseWs(target) == [ws EXCEPT ![target] = "closed"]

CloseWsCode(target) ==
    IF ws[target] = "open" THEN [wsCode EXCEPT ![target] = 1000] ELSE wsCode

\* Session.close() suspends its caller when it has a connection to close: the
\* provider's or the client's.
CloseSuspends(target) ==
    \/ gwSessions[target].provider_session # None /\ provider.is_connected
    \/ ws[target] = "open"

\* `session = Session(call_id, websocket, self)` and
\* `self.active_sessions[call_id] = session`: an entry already under call_id is
\* replaced.
RegisteredSessions(c, call_id) == DictSet(gwSessions, c, NewSession(call_id))
RegisteredActive(c, call_id) == DictSet(active_sessions, call_id, c)

\* handle_client from its start to its first suspension: the admission checks,
\* the gauge and, when DEV_ALLOW_NO_JWT, the registration of the session.
Connect(c, call_id, gate) ==
    /\ cpc[c] = "new"
    /\ ccall' = [ccall EXCEPT ![c] = call_id]
    /\ gwLast' = [conn |-> c, op |-> "connect"]
    /\ IF gate # "ok"
       THEN /\ ws' = [ws EXCEPT ![c] = "closed"]
            /\ wsCode' = [wsCode EXCEPT ![c] = IF gate = "conn_rate" THEN 1013 ELSE 1008]
            /\ cpc' = [cpc EXCEPT ![c] = "done"]
            /\ UNCHANGED <<calls_active, gwSessions, active_sessions>>
       ELSE /\ ws' = [ws EXCEPT ![c] = "open"]
            /\ calls_active' = calls_active + 1
            /\ UNCHANGED wsCode
            /\ IF devAllowNoJwt
               THEN /\ gwSessions' = RegisteredSessions(c, call_id)
                    /\ active_sessions' = RegisteredActive(c, call_id)
                    /\ cpc' = [cpc EXCEPT ![c] = "opening"]
               ELSE /\ cpc' = [cpc EXCEPT ![c] = "auth"]
                    /\ UNCHANGED <<gwSessions, active_sessions>>
    /\ UNCHANGED <<devAllowNoJwt, sent, authResult, provider, redis>>
    /\ UNCHANGED nonGwVars

\* `auth_message = await websocket.recv()` returns or raises, and the code up
\* to the next suspension: the JWT gate, then either the refusal (auth_error,
\* close 1008, return) or the registration of the session.  The peer is still
\* connected when the refusal is sent.
AuthFrame(c, frame, redis_ok) ==
    /\ cpc[c] = "auth"
    /\ gwLast' = [conn |-> c, op |-> "auth"]
    /\ IF frame.kind \in {"disconnect", "garbage"}
       THEN \* ConnectionClosed, or JSONDecodeError: to the finally block
            /\ cpc' = [cpc EXCEPT ![c] = "teardown"]
            /\ ws' = IF frame.kind = "disconnect" THEN [ws EXCEPT ![c] = "closed"] ELSE ws
            /\ wsCode' = IF frame.kind = "disconnect"
                         THEN [wsCode EXCEPT ![c] = 1006] ELSE wsCode
            /\ UNCHANGED <<sent, authResult, gwSessions, active_sessions, redis>>
       ELSE LET has_jwt == frame.kind = "jwt"
                valid == has_jwt /\ _validate_jwt(frame.token, ccall[c], redis_ok)
            IN  /\ authResult' = [authResult EXCEPT ![c] = IF valid THEN "ok" ELSE "failed"]
                /\ redis' = IF valid THEN SetNx(redis, frame.token["nonce"], now) ELSE redis
                /\ IF AuthRejects(has_jwt, valid)
                   THEN /\ sent' = [sent EXCEPT ![c] = @ \cup {"auth_error"}]
                        /\ ws' = [ws EXCEPT ![c] = "closed"]
                        /\ wsCode' = [wsCode EXCEPT ![c] = 1008]
                        /\ cpc' = [cpc EXCEPT ![c] = "teardown"]
                        /\ UNCHANGED <<gwSessions, active_sessions>>
                   ELSE /\ gwSessions' = RegisteredSessions(c, ccall[c])
                        /\ active_sessions' = RegisteredActive(c, ccall[c])
                        /\ cpc' = [cpc EXCEPT ![c] = "opening"]
                        /\ UNCHANGED <<sent, ws, wsCode>>
    /\ UNCHANGED <<devAllowNoJwt, ccall, provider, calls_active>>
    /\ UNCHANGED nonGwVars

\* `await session.open_provider_session()` and the `connected` event.
\* RealtimeProvider.open() returns at once when the provider is connected,
\* else it connects (connect_ok) or raises, in which case the session keeps
\* provider_session = None and the client is sent provider_error.  A send on a
\* websocket that is closed raises ConnectionClosed: to the finally block.
OpenProvider(c, connect_ok) ==
    /\ cpc[c] = "opening"
    /\ gwLast' = [conn |-> c, op |-> "open"]
    /\ LET opened == provider.is_connected \/ connect_ok
       IN  /\ provider' = IF opened THEN [provider EXCEPT !.is_connected = TRUE]
                          ELSE provider
           /\ gwSessions' = [gwSessions EXCEPT
                  ![c].open_called = TRUE,
                  ![c].provider_session = IF opened THEN "provider" ELSE @]
           /\ IF ws[c] = "open"
              THEN /\ sent' = [sent EXCEPT ![c] =
                          @ \cup {"connected"}
                            \cup (IF opened THEN {} ELSE {"provider_error"})]
                   /\ cpc' = [cpc EXCEPT ![c] = "loop"]
              ELSE /\ cpc' = [cpc EXCEPT ![c] = "teardown"]
                   /\ UNCHANGED sent
    /\ UNCHANGED <<devAllowNoJwt, ccall, ws, wsCode, authResult, active_sessions,
                   calls_active, redis>>
    /\ UNCHANGED nonGwVars

\* The client goes away while its handler waits.
ClientClose(c) ==
    /\ cpc[c] \in {"opening", "loop"}
    /\ ws[c] = "open"
    /\ ws' = [ws EXCEPT ![c] = "closed"]
    /\ wsCode' = [wsCode EXCEPT ![c] = 1006]
    /\ gwLast' = [conn |-> c, op |-> "client_close"]
    /\ UNCHANGED <<devAllowNoJwt, cpc, ccall, sent, authResult, gwSessions,
                   active_sessions, provider, calls_active, redis>>
    /\ UNCHANGED nonGwVars

\* `async for message in websocket` ends when the websocket is closed, by the
\* client or by a Session.close().
LoopEnd(c) ==
    /\ cpc[c] = "loop"
    /\ ws[c] = "closed"
    /\ cpc' = [cpc EXCEPT ![c] = "teardown"]
    /\ gwLast' = [conn |-> c, op |-> "loop_end"]
    /\ UNCHANGED <<devAllowNoJwt, ccall, ws, wsCode, sent, authResult, gwSessions,
                   active_sessions, provider, calls_active, redis>>
    /\ UNCHANGED nonGwVars

\* `await session.handle_event(validated_event)` for a frame that passed the
\* gates of the loop; `session` is the Session this connection constructed.
\* gateway.fsm is the RealtimeFSM of rt_fsm.py, which has no
\* process_audio_chunk and no process_barge_in: the handlers of audio_chunk and
\* barge_in end in their `except Exception` at that call.
Dispatch(c, type) ==
    /\ cpc[c] = "loop"
    /\ ws[c] = "open"
    /\ gwLast' = [conn |-> c, op |-> type]
    /\ LET session == gwSessions[c]
       IN  CASE type = "audio_chunk" ->
                  \* handle_audio_chunk: returns without a provider session,
                  \* else send_audio, then the failing FSM call
                  /\ provider' = IF session.provider_session # None
                                 THEN ProviderSendAudio(provider, c) ELSE provider
                  /\ UNCHANGED <<gwSessions, ws, wsCode, sent>>
             [] type = "barge_in" ->
                  \* handle_barge_in: provider cancel, pipert_tts.stop(), then
                  \* the failing FSM call; barge_in_ack is not reached
                  /\ provider.interrupts < MaxInterrupts
                  /\ provider' = IF session.provider_session # None
                                 THEN ProviderCancel(provider) ELSE provider
                  /\ UNCHANGED <<gwSessions, ws, wsCode, sent>>
             [] type = "stop" ->
                  \* handle_stop: Session.close() of its own session
                  /\ provider' = CloseProvider(c)
                  /\ gwSessions' = CloseSessions(c, c)
                  /\ ws' = CloseWs(c)
                  /\ wsCode' = CloseWsCode(c)
                  /\ UNCHANGED sent
             [] type = "ping" ->
                  /\ sent' = [sent EXCEPT ![c] = @ \cup {"pong"}]
                  /\ UNCHANGED <<provider, gwSessions, ws, wsCode>>
    /\ UNCHANGED <<devAllowNoJwt, cpc, ccall, authResult, active_sessions,
                   calls_active, redis>>
    /\ UNCHANGED nonGwVars

\* The finally block of handle_client, first part:
\*     if call_id in self.active_sessions:
\*         await self.active_sessions[call_id].close()
\*         del self.active_sessions[call_id]
\* and, when close() did not suspend, the rest of the block (the gauge is
\* decremented and the handler returns, which closes its websocket).
TeardownClose(c) ==
    /\ cpc[c] = "teardown"
    /\ gwLast' = [conn |-> c, op |-> "teardown"]
    /\ IF ccall[c] \in DOMAIN active_sessions
       THEN LET target == active_sessions[ccall[c]]
                closed == CloseSessions(target, c)
                wsClosed == CloseWs(target)
                codeClosed == CloseWsCode(target)
            IN  /\ provider' = CloseProvider(target)
                /\ IF CloseSuspends(target)
                   THEN /\ gwSessions' = closed
                        /\ ws' = wsClosed
                        /\ wsCode' = codeClosed
                        /\ cpc' = [cpc EXCEPT ![c] = "teardown_del"]
                        /\ UNCHANGED <<active_sessions, calls_active>>
                   ELSE /\ gwSessions' = [closed EXCEPT ![target].removedBy = @ \cup {c}]
                        /\ active_sessions' = DictDel(active_sessions, ccall[c])
                        /\ ws' = [wsClosed EXCEPT ![c] = "closed"]
                        /\ wsCode' = IF wsClosed[c] = "open"
                                     THEN [codeClosed EXCEPT ![c] = 1000] ELSE codeClosed
                        /\ calls_active' = calls_active - 1
                        /\ cpc' = [cpc EXCEPT ![c] = "done"]
       ELSE /\ ws' = [ws EXCEPT ![c] = "closed"]
            /\ wsCode' = IF ws[c] = "open" THEN [wsCode EXCEPT ![c] = 1000] ELSE wsCode
            /\ calls_active' = calls_active - 1
            /\ cpc' = [cpc EXCEPT ![c] = "done"]
            /\ UNCHANGED <<gwSessions, active_sessions, provider>>
    /\ UNCHANGED <<devAllowNoJwt, ccall, sent, authResult, redis>>
    /\ UNCHANGED nonGwVars

\* The finally block after the await: `del self.active_sessions[call_id]`
\* deletes whatever entry is under call_id now and the block runs to its end;
\* with no entry left the del raises KeyError, which leaves the block before
\* the gauge is decremented and ends the handler with an error (close code
\* 1011).
TeardownDel(c) ==
    /\ cpc[c] = "teardown_del"
    /\ gwLast' = [conn |-> c, op |-> "teardown"]
    /\ cpc' = [cpc EXCEPT ![c] = "done"]
    /\ ws' = [ws EXCEPT ![c] = "closed"]
    /\ IF ccall[c] \in DOMAIN active_sessions
       THEN LET target == active_sessions[ccall[c]]
            IN  /\ gwSessions' = [gwSessions EXCEPT ![target].removedBy = @ \cup {c}]
                /\ active_sessions' = DictDel(active_sessions, ccall[c])
                /\ calls_active' = calls_active - 1
                /\ wsCode' = IF ws[c] = "open" THEN [wsCode EXCEPT ![c] = 1000] ELSE wsCode
       ELSE /\ wsCode' = IF ws[c] = "open" THEN [wsCode EXCEPT ![c] = 1011] ELSE wsCode
            /\ UNCHANGED <<gwSessions, active_sessions, calls_active>>
    /\ UNCHANGED <<devAllowNoJwt, ccall, sent, authResult, provider, redis>>
    /\ UNCHANGED nonGwVars

\* The gateway after RealtimeWSGateway.__init__, no connection made yet.
GwInit ==
    /\ devAllowNoJwt \in BOOLEAN
    /\ cpc = [c \in Conns |-> "new"]
    /\ ccall = [c \in Conns |-> None]
    /\ ws = [c \in Conns |-> "none"]
    /\ wsCode = [c \in Conns |-> 0]
    /\ sent = [c \in Conns |-> {}]
    /\ authResult = [c \in Conns |-> "none"]
    /\ gwSessions = EmptyDict
    /\ active_sessions = EmptyDict
    /\ provider = [is_connected |-> FALSE, interrupts |-> 0, audio_from |-> {}]
    /\ calls_active = 0
    /\ gwLast = [conn |-> None, op |-> None]

GwConnect == \E c \in Conns, call_id \in CallIds, gate \in Gates : Connect(c, call_id, gate)
GwAuthFrame == \E c \in Conns, frame \in AuthFrames, redis_ok \in BOOLEAN :
                   AuthFrame(c, frame, redis_ok)
GwOpenProvider == \E c \in Conns, connect_ok \in BOOLEAN : OpenProvider(c, connect_ok)
GwClientClose == \E c \in Conns : ClientClose(c)
GwLoopEnd == \E c \in Conns : LoopEnd(c)
GwDispatch == \E c \in Conns, type \in EventTypes : Dispatch(c, type)
GwTeardownClose == \E c \in Conns : TeardownClose(c)
GwTeardownDel == \E c \in Conns : TeardownDel(c)

GwNext ==
    \/ GwConnect \/ GwAuthFrame \/ GwOpenProvider \/ GwClientClose \/ GwLoopEnd
    \/ GwDispatch \/ GwTeardownClose \/ GwTeardownDel

(***************************************************************************)
(* Part 4: the frame loop of handle_client and its gates,                  *)
(* apps/telephony_bridge/ws_realtime.py                                    *)
(*                                                                         *)
(* One authenticated connection whose session has an open provider         *)
(* session.  The clock counts seconds.                                     *)
(***************************************************************************)

RATE_LIMIT_MSGS_PER_SEC == 120
RATE_LIMIT_WINDOW_SEC == 1
RATE_LIMIT_BYTES_PER_SEC == 256 * 1024
MAX_FRAME_SIZE == 64 * 1024
RETRY_AFTER_SECONDS == 1

\* Bounds of the frame-loop model: single frames, the length of the client's
\* burst, and seconds of clock.
MaxFrames == 3
FloodLen == 118
MaxFrameTicks == 2

\* len(message) of an ordinary audio_chunk frame.
AudioFrameSize == 1024

\* len(message) of the frames received: ordinary, exactly MAX_FRAME_SIZE, and
\* one more.
FrameSizes == {AudioFrameSize, MAX_FRAME_SIZE, MAX_FRAME_SIZE + 1}

\* What a frame holds: a valid audio_chunk or stop event, or ("invalid") text
\* that json.loads or _validate_event refuses.
FrameKinds == {"audio_chunk", "stop", "invalid"}

\* One more occurrence of k in a tally (a dict of counts).
Tally(d, k) == DictSet(d, k, IF k \in DOMAIN d THEN d[k] + 1 ELSE 1)

\* `while q and q[0] < window_start: q.popleft()` on a deque of timestamps.
\* The timestamps are appended in time order, so the entries popped are all
\* those below window_start.
PopExpired(q, window_start) == SelectSeq(q, LAMBDA ts : ~(ts < window_start))

\* The same loop on the deque of <<timestamp, size>> entries.
PopExpiredBytes(entries, window_start) ==
    SelectSeq(entries, LAMBDA entry : ~(entry[1] < window_start))

\* sum(size for _, size in entries), by halves: entries lo..hi.
RECURSIVE SumRange(_, _, _)
SumRange(entries, lo, hi) ==
    IF lo > hi THEN 0
    ELSE IF lo = hi THEN entries[lo][2]
    ELSE LET mid == (lo + hi) \div 2
         IN  SumRange(entries, lo, mid) + SumRange(entries, mid + 1, hi)

SumSizes(entries) == SumRange(entries, 1, Len(entries))

\* _check_rate_limit: `if len(self.rate_limits[client_id]) >= RATE_LIMIT_MSGS_PER_SEC`.
RateLimitedAbove(q) == Len(q) > RATE_LIMIT_MSGS_PER_SEC

RateLimited(q) == Len(q) >= RATE_LIMIT_MSGS_PER_SEC

\* _check_byte_limit: `if current_bytes + message_size > RATE_LIMIT_BYTES_PER_SEC`.
ByteLimited(entries, message_size) ==
    SumSizes(entries) + message_size > RATE_LIMIT_BYTES_PER_SEC

\* The frame-size check of the loop: `if len(message) > MAX_FRAME_SIZE`.
FrameTooLargeNever(size) == FALSE

FrameTooLarge(size) == size > MAX_FRAME_SIZE

\* The rate_limit_exceeded event sent by the loop for the given limit.
RateLimitExceeded(message) ==
    [type |-> "rate_limit_exceeded", message |-> message,
     retry_after |-> RETRY_AFTER_SECONDS]

\* The state of the loop as one record.
LoopState ==
    [rate |-> rate_limits, bytes |-> rate_limit_bytes, pc |-> fpc,
     sleep_until |-> sleep_until, ws |-> fws, sent |-> fsent, passed |-> passed,
     handled |-> handled, forwarded |-> forwarded, last |-> fLast]

\* Session.handle_event for a validated event of the given type, invoked for
\* a frame of the given size: audio_chunk goes to the provider's send_audio,
\* stop closes the session, which closes the websocket and ends the loop.
SessionHandleEvent(st, size, type) ==
    LET st1 == [st EXCEPT !.handled = Tally(@, size)]
    IN  CASE type = "audio_chunk" -> [st1 EXCEPT !.forwarded = Tally(@, size)]
          [] type = "stop" -> [st1 EXCEPT !.ws = "closed", !.pc = "done"]

\* One iteration of `async for message in websocket` at time t, for a message
\* of length size: the message-rate gate, the frame-size check, the byte-rate
\* gate, json.loads and _validate_event, then session.handle_event.  A rate
\* limit refusal sends rate_limit_exceeded and sleeps RETRY_AFTER_SECONDS.
FrameStep(st, t, size, kind) ==
    LET out(o) == [op |-> "frame", size |-> size, kind |-> kind, outcome |-> o]
        rate1 == PopExpired(st.rate, t - RATE_LIMIT_WINDOW_SEC)
    IN  IF RateLimited(rate1)
        THEN [st EXCEPT !.rate = rate1,
                        !.sent = Append(@, RateLimitExceeded("Too many messages per second")),
                        !.pc = "sleeping",
                        !.sleep_until = t + RETRY_AFTER_SECONDS,
                        !.last = out("messages_per_sec")]
        ELSE
        LET st1 == [st EXCEPT !.rate = Append(rate1, t), !.passed = Tally(@, t)]
        IN  IF FrameTooLarge(size)
            THEN [st1 EXCEPT !.last = out("frame_size")]
            ELSE
            LET bytes1 == PopExpiredBytes(st.bytes, t - RATE_LIMIT_WINDOW_SEC)
            IN  IF ByteLimited(bytes1, size)
                THEN [st1 EXCEPT !.bytes = bytes1,
                                 !.sent = Append(@, RateLimitExceeded("Too many bytes per second")),
                                 !.pc = "sleeping",
                                 !.sleep_until = t + RETRY_AFTER_SECONDS,
                                 !.last = out("bytes_per_sec")]
                ELSE
                LET st2 == [st1 EXCEPT !.bytes = Append(bytes1, <<t, size>>)]
                IN  CASE kind = "invalid" -> [st2 EXCEPT !.last = out("invalid")]
                      [] OTHER -> SessionHandleEvent([st2 EXCEPT !.last = out("dispatched")],
                                                     size, kind)

\* n iterations of the loop at the same clock reading on ordinary audio_chunk
\* frames, as far as the loop runs without sleeping (the first half of them,
\* then the rest).
RECURSIVE FloodSteps(_, _, _)
FloodSteps(st, t, n) ==
    IF n = 0 \/ st.pc # "loop" THEN st
    ELSE IF n = 1 THEN FrameStep(st, t, AudioFrameSize, "audio_chunk")
    ELSE FloodSteps(FloodSteps(st, t, n \div 2), t, n - n \div 2)

\* The variables take the fields of the loop state st.
LoopBecomes(st) ==
    /\ rate_limits' = st.rate
    /\ rate_limit_bytes' = st.bytes
    /\ fpc' = st.pc
    /\ sleep_until' = st.sleep_until
    /\ fws' = st.ws
    /\ fsent' = st.sent
    /\ passed' = st.passed
    /\ handled' = st.handled
    /\ forwarded' = st.forwarded
    /\ fLast' = st.last

\* The loop receives one frame.
Frame(size, kind) ==
    /\ fpc = "loop"
    /\ framesSeen < MaxFrames
    /\ framesSeen' = framesSeen + 1
    /\ \E st \in {FrameStep(LoopState, now, size, kind)} : LoopBecomes(st)
    /\ UNCHANGED <<flooded, now>>
    /\ UNCHANGED nonFrameVars

\* The client opens with a burst of FloodLen audio_chunk frames, which the
\* loop receives back to back.
Flood ==
    /\ fpc = "loop"
    /\ ~flooded
    /\ framesSeen = 0
    /\ flooded' = TRUE
    /\ \E st \in {FloodSteps(LoopState, now, FloodLen)} : LoopBecomes(st)
    /\ UNCHANGED <<framesSeen, now>>
    /\ UNCHANGED nonFrameVars

\* asyncio.sleep(RETRY_AFTER_SECONDS) returns.
Wake ==
    /\ fpc = "sleeping"
    /\ now >= sleep_until
    /\ fpc' = "loop"
    /\ fLast' = [op |-> "wake", size |-> 0, kind |-> None, outcome |-> None]
    /\ UNCHANGED <<rate_limits, rate_limit_bytes, sleep_until, fws, fsent, passed,
                   handled, forwarded, framesSeen, flooded, now>>
    /\ UNCHANGED nonFrameVars

\* A second passes.
FrameTick ==
    /\ now < StartTime + MaxFrameTicks
    /\ fpc # "done"
    /\ now' = now + 1
    /\ fLast' = [op |-> "tick", size |-> 0, kind |-> None, outcome |-> None]
    /\ UNCHANGED <<rate_limits, rate_limit_bytes, fpc, sleep_until, fws, fsent, passed,
                   handled, forwarded, framesSeen, flooded>>
    /\ UNCHANGED nonFrameVars

\* The connection as it enters the frame loop.
FrameInit ==
    /\ rate_limits = <<>>
    /\ rate_limit_bytes = <<>>
    /\ fpc = "loop"
    /\ sleep_until = 0
    /\ fws = "open"
    /\ fsent = <<>>
    /\ passed = EmptyDict
    /\ handled = EmptyDict
    /\ forwarded = EmptyDict
    /\ fLast = [op |-> None, size |-> 0, kind |-> None, outcome |-> None]
    /\ framesSeen = 0
    /\ flooded = FALSE

FrameReceive == \E size \in FrameSizes, kind \in FrameKinds : Frame(size, kind)

FramesNext == FrameReceive \/ Flood \/ Wake \/ FrameTick

(***************************************************************************)
(* Part 5: event handling of one Session,                                  *)
(* apps/telephony_bridge/ws_realtime.py (Session.handle_event and its      *)
(* handlers, Session.process_provider_events) with the provider's recv()   *)
(* of apps/realtime/provider_realtime.py                                   *)
(*                                                                         *)
(* One connection in its frame loop, its session holding a provider        *)
(* session.  The frames are those that passed the gates of the loop.       *)
(***************************************************************************)

\* Bounds of the session model: client frames received, provider events emitted.
MaxClientFrames == 3
MaxBackendEvents == 2

\* The events _map_provider_event yields that the model follows.
ProviderEvents == {"stt_final", "llm_complete", "tts_audio"}

\* The public methods of gateway.fsm, the RealtimeFSM of
\* apps/dispatcher/rt_fsm.py that ws_realtime.py imports.
RtFsmMethods ==
    {"create_session", "handle_event", "get_session", "get_policy_for_session",
     "update_session_context", "get_session_stats"}

\* getattr(self.gateway.fsm, method) succeeds; otherwise the call raises
\* AttributeError.
FsmHas(method) == method \in RtFsmMethods

\* The FSM method process_provider_events calls for an event, None when it
\* calls none.
FsmMethodFor(event) ==
    CASE event = "stt_final" -> "process_stt_final"
      [] event = "llm_token" -> "process_llm_token"
      [] event = "tts_audio" -> "process_tts_audio"
      [] OTHER -> None

\* The client sends a frame.
ClientSends(type) ==
    /\ spc # "done"
    /\ Len(sReceived) < MaxClientFrames
    /\ sInbox' = Append(sInbox, type)
    /\ sReceived' = Append(sReceived, type)
    /\ UNCHANGED <<spc, sDispatched, sStreamOpen, sStream, sEmitted, sForwarded,
                   sFed, sCalls>>
    /\ UNCHANGED nonSessVars

\* The Realtime Session emits an event on the provider's websocket.
BackendEmits(event) ==
    /\ sStreamOpen
    /\ Len(sEmitted) < MaxBackendEvents
    /\ sStream' = Append(sStream, event)
    /\ sEmitted' = Append(sEmitted, event)
    /\ UNCHANGED <<spc, sInbox, sReceived, sDispatched, sStreamOpen, sForwarded,
                   sFed, sCalls>>
    /\ UNCHANGED nonSessVars

\* The Realtime Session ends its stream.
BackendCloses ==
    /\ sStreamOpen
    /\ sStreamOpen' = FALSE
    /\ UNCHANGED <<spc, sInbox, sReceived, sDispatched, sStream, sEmitted,
                   sForwarded, sFed, sCalls>>
    /\ UNCHANGED nonSessVars

\* The loop reads the next frame and awaits session.handle_event for it.
\*   handle_audio_chunk: send_audio, fsm.process_audio_chunk, then
\*     process_provider_events, awaited in place;
\*   handle_barge_in: provider cancel, pipert_tts.stop(),
\*     fsm.process_barge_in, then the barge_in_ack;
\*   handle_ping: pong;  handle_stop: Session.close().
\* An exception in a handler is caught by its `except Exception` and ends it.
SessionDispatch ==
    /\ spc = "loop"
    /\ sInbox # <<>>
    /\ LET type == Head(sInbox)
       IN  /\ sInbox' = Tail(sInbox)
           /\ sDispatched' = Append(sDispatched, type)
           /\ CASE type = "audio_chunk" ->
                    IF FsmHas("process_audio_chunk")
                    THEN /\ sCalls' = <<"provider.send_audio", "fsm.process_audio_chunk",
                                        "process_provider_events">>
                         /\ spc' = "pump"
                         /\ UNCHANGED sStreamOpen
                    ELSE /\ sCalls' = <<"provider.send_audio">>
                         /\ UNCHANGED <<spc, sStreamOpen>>
                [] type = "barge_in" ->
                    /\ sCalls' = IF FsmHas("process_barge_in")
                                 THEN <<"provider.cancel", "pipert_tts.stop",
                                        "fsm.process_barge_in", "send:barge_in_ack">>
                                 ELSE <<"provider.cancel", "pipert_tts.stop">>
                    /\ UNCHANGED <<spc, sStreamOpen>>
                [] type = "ping" ->
                    /\ sCalls' = <<"send:pong">>
                    /\ UNCHANGED <<spc, sStreamOpen>>
                [] type = "stop" ->
                    /\ sCalls' = <<"provider.close", "websocket.close">>
                    /\ spc' = "done"
                    /\ sStreamOpen' = FALSE
    /\ UNCHANGED <<sReceived, sStream, sEmitted, sForwarded, sFed>>
    /\ UNCHANGED nonSessVars

\* Session.process_provider_events is called.
PumpCall ==
    /\ spc = "loop"
    /\ spc' = "pump"
    /\ UNCHANGED <<sInbox, sReceived, sDispatched, sStreamOpen, sStream, sEmitted,
                   sForwarded, sFed, sCalls>>
    /\ UNCHANGED nonSessVars

\* One round of `async for event in self.provider_session.recv()`: the event
\* is sent to the client, then stt_final, llm_token and tts_audio are given to
\* the FSM; an exception ends the pump.  With the stream closed and nothing
\* left to yield, recv() ends and the pump returns.
PumpStep ==
    /\ spc = "pump"
    /\ IF sStream # <<>>
       THEN LET event == Head(sStream)
                method == FsmMethodFor(event)
            IN  /\ sStream' = Tail(sStream)
                /\ sForwarded' = Append(sForwarded, event)
                /\ IF method = None
                   THEN UNCHANGED <<sFed, spc>>
                   ELSE IF FsmHas(method)
                        THEN sFed' = Append(sFed, event) /\ UNCHANGED spc
                        ELSE spc' = "loop" /\ UNCHANGED sFed
       ELSE /\ ~sStreamOpen
            /\ spc' = "loop"
            /\ UNCHANGED <<sStream, sForwarded, sFed>>
    /\ UNCHANGED <<sInbox, sReceived, sDispatched, sStreamOpen, sEmitted, sCalls>>
    /\ UNCHANGED nonSessVars

\* A connection that has just entered its frame loop.
SessInit ==
    /\ spc = "loop"
    /\ sInbox = <<>>
    /\ sReceived = <<>>
    /\ sDispatched = <<>>
    /\ sStreamOpen = TRUE
    /\ sStream = <<>>
    /\ sEmitted = <<>>
    /\ sForwarded = <<>>
    /\ sFed = <<>>
    /\ sCalls = <<>>

SessClientSends == \E type \in EventTypes : ClientSends(type)
SessBackendEmits == \E event \in ProviderEvents : BackendEmits(event)

\* The connection as the gateway runs it.
SessionNext == SessClientSends \/ SessionDispatch \/ SessBackendEmits \/ BackendCloses

\* process_provider_events on its own.
PumpNext == PumpCall \/ PumpStep \/ SessBackendEmits \/ BackendCloses

(***************************************************************************)
(* Part 6: barge-in cancellation of a turn's output,                       *)
(* apps/realtime/provider_realtime.py (RealtimeProvider.cancel, recv) and  *)
(* apps/realtime/tts_piper_realtime.py (PiperTTSRealtime).                 *)
(*                                                                         *)
(* A turn is the output produced between two cancellations.  A provider    *)
(* message belongs to the turn in which it arrived on the websocket, a     *)
(* Piper frame to the turn in which it was put on audio_queue.             *)
(***************************************************************************)

\* Bounds of the cancellation model.
MaxCancels == 1
MaxBuffered == 2
MaxTtsFrames == 2
MaxTurnEvents == 3

\* What the provider's messages map to (the ones that matter here).
TurnEventTypes == {"tts_audio", "llm_token"}

\* An emitted event: its type, who emitted it, the turn its payload belongs to
\* and the turn that was current when it was emitted.
TurnEvent(type, src, turn, at) == [type |-> type, src |-> src, turn |-> turn, at |-> at]

\* A message of the provider arrives on the websocket and waits there for recv.
ProviderSends(type) ==
    /\ Len(wsBuffer) < MaxBuffered
    /\ Len(tEmitted) + Len(wsBuffer) < MaxTurnEvents
    /\ wsBuffer' = Append(wsBuffer, [type |-> type, turn |-> pTurn])
    /\ UNCHANGED <<pTurn, pInterrupts, audio_queue, stop_event, tts_pc, lTurn, tEmitted>>
    /\ UNCHANGED nonTurnVars

\* RealtimeProvider.recv: `async for message in self.websocket` takes the next
\* message in arrival order and yields its mapped event.
ProviderRecv ==
    /\ wsBuffer # <<>>
    /\ Len(tEmitted) < MaxTurnEvents
    /\ tEmitted' = Append(tEmitted,
                          TurnEvent(Head(wsBuffer).type, "provider", Head(wsBuffer).turn, pTurn))
    /\ wsBuffer' = Tail(wsBuffer)
    /\ UNCHANGED <<pTurn, pInterrupts, audio_queue, stop_event, tts_pc, lTurn>>
    /\ UNCHANGED nonTurnVars

\* RealtimeProvider.cancel on a connected provider: one interrupt message is
\* sent upstream and the call returns.  Nothing that has arrived is touched.
ProviderCancelReturns ==
    /\ pTurn < MaxCancels
    /\ pInterrupts' = pInterrupts + 1
    /\ pTurn' = pTurn + 1
    /\ UNCHANGED <<wsBuffer, audio_queue, stop_event, tts_pc, lTurn, tEmitted>>
    /\ UNCHANGED nonTurnVars

\* PiperTTSRealtime.stop, from stop_event.set() to stop_event.clear(): the
\* queue is emptied, and a Piper process still running is terminated, which
\* makes the synthesis waiting for it fail.  (The wait for the terminated
\* process is part of the step.)
PiperStop ==
    /\ audio_queue' = <<>>
    /\ stop_event' = FALSE
    /\ tts_pc' = IF tts_pc = "piper" THEN "failed" ELSE tts_pc

\* synthesize_text up to the wait for the Piper process: stop(), then
\* _start_piper_process starts the process and awaits communicate().
SynthesizeText ==
    /\ tts_pc = "idle"
    /\ Len(tEmitted) < MaxTurnEvents
    /\ audio_queue' = <<>>
    /\ stop_event' = FALSE
    /\ tts_pc' = "piper"
    /\ UNCHANGED <<wsBuffer, pTurn, pInterrupts, lTurn, tEmitted>>
    /\ UNCHANGED nonTurnVars

\* The Piper process ends and _load_audio_file puts its frames on audio_queue.
PiperLoaded(n) ==
    /\ tts_pc = "piper"
    /\ audio_queue' = [i \in 1..n |-> lTurn]
    /\ tts_pc' = "stream"
    /\ UNCHANGED <<wsBuffer, pTurn, pInterrupts, stop_event, lTurn, tEmitted>>
    /\ UNCHANGED nonTurnVars

\* _stream_audio_frames, one pass of the loop: the loop test, the frame taken
\* from the queue, the tts_audio yielded and the sleep of one frame length.
StreamFrame ==
    /\ tts_pc = "stream"
    /\ ~stop_event /\ audio_queue # <<>>
    /\ Len(tEmitted) < MaxTurnEvents
    /\ tEmitted' = Append(tEmitted, TurnEvent("tts_audio", "piper", Head(audio_queue), lTurn))
    /\ audio_queue' = Tail(audio_queue)
    /\ UNCHANGED <<wsBuffer, pTurn, pInterrupts, stop_event, tts_pc, lTurn>>
    /\ UNCHANGED nonTurnVars

\* _stream_audio_frames leaves the loop and yields tts_complete, and
\* synthesize_text's finally runs stop().
StreamEnd ==
    /\ tts_pc = "stream"
    /\ stop_event \/ audio_queue = <<>>
    /\ Len(tEmitted) < MaxTurnEvents
    /\ tEmitted' = Append(tEmitted, TurnEvent("tts_complete", "piper", lTurn, lTurn))
    /\ audio_queue' = <<>>
    /\ stop_event' = FALSE
    /\ tts_pc' = "idle"
    /\ UNCHANGED <<wsBuffer, pTurn, pInterrupts, lTurn>>
    /\ UNCHANGED nonTurnVars

\* synthesize_text's except branch after the process was terminated: tts_error
\* is yielded and the finally runs stop().
SynthesisFails ==
    /\ tts_pc = "failed"
    /\ Len(tEmitted) < MaxTurnEvents
    /\ tEmitted' = Append(tEmitted, TurnEvent("tts_error", "piper", lTurn, lTurn))
    /\ audio_queue' = <<>>
    /\ stop_event' = FALSE
    /\ tts_pc' = "idle"
    /\ UNCHANGED <<wsBuffer, pTurn, pInterrupts, lTurn>>
    /\ UNCHANGED nonTurnVars

\* The stop() of a barge-in (Session.handle_barge_in, LocalRealtimeSession.cancel)
\* has returned.
BargeInStop ==
    /\ lTurn < MaxCancels
    /\ PiperStop
    /\ lTurn' = lTurn + 1
    /\ UNCHANGED <<wsBuffer, pTurn, pInterrupts, tEmitted>>
    /\ UNCHANGED nonTurnVars

TurnInit ==
    /\ wsBuffer = <<>>
    /\ pTurn = 0
    /\ pInterrupts = 0
    /\ audio_queue = <<>>
    /\ stop_event = FALSE
    /\ tts_pc = "idle"
    /\ lTurn = 0
    /\ tEmitted = <<>>

TurnProviderSends == \E type \in TurnEventTypes : ProviderSends(type)
TurnPiperLoaded == \E n \in 1..MaxTtsFrames : PiperLoaded(n)

TurnNext ==
    \/ TurnProviderSends
    \/ ProviderRecv
    \/ ProviderCancelReturns
    \/ SynthesizeText
    \/ TurnPiperLoaded
    \/ StreamFrame
    \/ StreamEnd
    \/ SynthesisFails
    \/ BargeInStop

(***************************************************************************)
(* Part 7: the provider session with fallback,                             *)
(* apps/realtime/factory.py (ProviderRealtimeSessionWithFallback).         *)
(***************************************************************************)

FALLBACK_ERROR_BURST == 3
FALLBACK_ERROR_WINDOW == 60
FALLBACK_COOLDOWN_SEC == 600

\* Bounds of the fallback model.
MaxOpens == 2
MaxFoErrors == 4
MaxFoTicks == 2

\* The clock: time.time() is seconds since the epoch, far above the cooldown;
\* it is read at half windows, before and after a cooldown has passed.
FoTickStep == FALLBACK_ERROR_WINDOW \div 2
FoStartTime == 1000
FoTimes == {FoStartTime + i * FoTickStep + j * FALLBACK_COOLDOWN_SEC :
                i \in 0..MaxFoTicks, j \in 0..1}

FoSendOps == {"send_audio", "send_event"}
FoRecvEvents == {"tts_audio", "llm_token"}

\* deque(maxlen=n).append(x)
DequeAppend(q, x, maxlen) == IF Len(q) < maxlen THEN Append(q, x) ELSE Append(Tail(q), x)

\* sum(1 for t in self.error_times if time.time() - t < FALLBACK_ERROR_WINDOW)
RecentErrors(times, t) ==
    Cardinality({i \in 1..Len(times) : t - times[i] < FALLBACK_ERROR_WINDOW})

BurstReachedEarly(recent_errors) == recent_errors >= FALLBACK_ERROR_BURST - 1

\* if recent_errors >= FALLBACK_ERROR_BURST
BurstReached(recent_errors) == recent_errors >= FALLBACK_ERROR_BURST

CooldownNever(last, t) == FALSE

\* if time.time() - self.last_failover_time < FALLBACK_COOLDOWN_SEC
CooldownActive(last, t) == t - last < FALLBACK_COOLDOWN_SEC

\* The wrapper as an operation finds it; `cut` and `cooldown` record what
\* _failover_to_local does during the operation.
FoState ==
    [now |-> foNow, connected |-> foConnected, tasks |-> foTasks, provider |-> foProvider,
     fallback_session |-> fallback_session, current_backend |-> current_backend,
     error_count |-> error_count, error_times |-> error_times,
     last_failover_time |-> last_failover_time, gauge |-> backend_gauge,
     failover_total |-> failover_total, errors |-> foErrors,
     cut |-> FALSE, cooldown |-> FALSE]

\* _failover_to_local: within the cooldown it returns at once; otherwise the
\* provider is closed, a new LocalRealtimeSession is made, opened and assigned
\* to fallback_session, current_backend becomes local, the time is noted and
\* the backend gauge is set.
_failover_to_local(st) ==
    IF CooldownActive(st.last_failover_time, st.now)
    THEN [st EXCEPT !.cooldown = TRUE]
    ELSE [st EXCEPT !.provider.is_connected = FALSE,
                    !.fallback_session = @ + 1,
                    !.current_backend = "local",
                    !.last_failover_time = st.now,
                    !.gauge = DictSet(DictSet(@, "provider", 0), "local", 1),
                    !.cut = TRUE]

\* _handle_error: the error is counted and timed; with a burst of recent
\* errors the failover counter is incremented and _failover_to_local called.
_handle_error(st) ==
    LET times == DequeAppend(st.error_times, st.now, FALLBACK_ERROR_BURST)
        counted == [st EXCEPT !.error_count = @ + 1,
                              !.error_times = times,
                              !.errors = IF st.current_backend = "provider"
                                         THEN Append(@, st.now) ELSE @]
    IN  IF BurstReached(RecentErrors(times, st.now))
        THEN _failover_to_local([counted EXCEPT !.failover_total = @ + 1])
        ELSE counted

\* _update_latency_metrics: every event RealtimeProvider maps carries
\* 'timestamp': datetime.now().isoformat(), a string, so
\* `time.time() - event['timestamp']` raises TypeError before any latency is
\* stored or compared.
UpdateLatencyRaises(event) == event \in FoRecvEvents

\* The wrapper after an operation.
FoBecomes(st, op, on) ==
    /\ foConnected' = st.connected
    /\ foTasks' = st.tasks
    /\ foProvider' = st.provider
    /\ fallback_session' = st.fallback_session
    /\ current_backend' = st.current_backend
    /\ error_count' = st.error_count
    /\ error_times' = st.error_times
    /\ last_failover_time' = st.last_failover_time
    /\ backend_gauge' = st.gauge
    /\ failover_total' = st.failover_total
    /\ foErrors' = st.errors
    /\ foLast' = [op |-> op, was |-> current_backend, on |-> on,
                  cut |-> st.cut, cooldown |-> st.cooldown]
    /\ UNCHANGED foNow

\* LocalRealtimeSession.open on the wrapper itself (super().open()): nothing if
\* is_connected, else is_connected is set and the VAD task created.
BaseOpen(st) ==
    IF st.connected THEN st ELSE [st EXCEPT !.connected = TRUE, !.tasks = @ + 1]

\* RealtimeProvider.open followed by the wrapper's gauge update, or by
\* _failover_to_local when the connection attempt raises.
ProviderOpen(st, connect_ok) ==
    IF st.provider.is_connected
    THEN [st EXCEPT !.gauge = DictSet(@, "provider", 1)]
    ELSE IF connect_ok
         THEN [st EXCEPT !.provider = [is_connected |-> TRUE, connects |-> @.connects + 1],
                         !.gauge = DictSet(@, "provider", 1)]
         ELSE _failover_to_local([st EXCEPT !.provider.connects = @ + 1])

\* ProviderRealtimeSessionWithFallback.open
FoOpen(connect_ok) ==
    /\ foOpens < MaxOpens
    /\ foOpens' = foOpens + 1
    /\ \E st \in {ProviderOpen(BaseOpen(FoState), connect_ok)} : FoBecomes(st, "open", "provider")
    /\ UNCHANGED nonFoVars

\* Whether the backend an operation is routed to can raise: the provider's
\* send raises only on a connected websocket (it returns at once otherwise);
\* the local session's send can raise from _trigger_stt.
CanRaise(st) == st.current_backend = "local" \/ st.provider.is_connected

\* `if self.current_backend == 'provider': ... self.provider ... else: ...
\* self.fallback_session ...`
RoutedBackend(st) == IF st.current_backend = "provider" THEN "provider" ELSE "local"

\* send_audio and send_event: routed by current_backend; an exception goes to
\* _handle_error.
FoSend(op, raises) ==
    /\ raises => error_count < MaxFoErrors
    /\ \E st \in {IF raises /\ CanRaise(FoState) THEN _handle_error(FoState) ELSE FoState} :
          FoBecomes(st, op, RoutedBackend(FoState))
    /\ UNCHANGED foOpens
    /\ UNCHANGED nonFoVars

\* recv_events up to one event: routed by current_backend.  On a connected
\* provider the event is read; a tts_audio goes through
\* _update_latency_metrics, whose exception goes to _handle_error.
FoRecv(event) ==
    /\ error_count < MaxFoErrors
    /\ \E st \in {IF /\ current_backend = "provider" /\ foProvider.is_connected
                     /\ event = "tts_audio" /\ UpdateLatencyRaises(event)
                  THEN _handle_error(FoState) ELSE FoState} :
          FoBecomes(st, "recv", RoutedBackend(FoState))
    /\ UNCHANGED foOpens
    /\ UNCHANGED nonFoVars

\* Time passes.
FoTick(t) ==
    /\ t > foNow
    /\ foNow' = t
    /\ UNCHANGED <<foOpens, foConnected, foTasks, foProvider, fallback_session,
                   current_backend, error_count, error_times, last_failover_time,
                   backend_gauge, failover_total, foErrors, foLast>>
    /\ UNCHANGED nonFoVars

\* ProviderRealtimeSessionWithFallback.__init__
FoInit ==
    /\ foNow = FoStartTime
    /\ foOpens = 0
    /\ foConnected = FALSE
    /\ foTasks = 0
    /\ foProvider = [is_connected |-> FALSE, connects |-> 0]
    /\ fallback_session = 0
    /\ current_backend = "provider"
    /\ error_count = 0
    /\ error_times = <<>>
    /\ last_failover_time = 0
    /\ backend_gauge = EmptyDict
    /\ failover_total = 0
    /\ foErrors = <<>>
    /\ foLast = [op |-> "init", was |-> "provider", on |-> "provider",
                 cut |-> FALSE, cooldown |-> FALSE]

FoOpens == \E connect_ok \in BOOLEAN : FoOpen(connect_ok)
FoSends == \E op \in FoSendOps, raises \in BOOLEAN : FoSend(op, raises)
FoRecvs == \E event \in FoRecvEvents : FoRecv(event)
FoTicks == \E t \in FoTimes : FoTick(t)

FailoverNext == FoOpens \/ FoSends \/ FoRecvs \/ FoTicks

(***************************************************************************)
(* Part 8: the deploy guard, apps/rl/deploy_guard.py (DeployGuardFull).    *)
(* Rewards and confidences are counted in tenths.                          *)
(***************************************************************************)

\* DeployConfig: the defaults, but for max_active_variants, which is configured
\* to its least value so that three variants reach the limit.
base_variant == "v1a"
min_pulls_for_evaluation == 20
blacklist_threshold_reward == -2
uncertainty_threshold_confidence == 6
max_active_variants == 1

\* DeployConfig.traffic_split_new and traffic_split_uncertain, in hundredths.
traffic_split_new == 10
traffic_split_uncertain == 20

\* The values _random.random() returns, in hundredths: below both splits,
\* between the greater split and their sum, and above the sum.
DgSamples == {5, 25, 50}

DgVariants == {"v1a", "v2a", "v3a"}

\* The statistics a variant can have: not yet evaluated, evaluated with a
\* reward below the threshold, evaluated with low confidence, evaluated and
\* sound.
DgStatKinds ==
    {[pulls |-> 0, mean_reward |-> 0, confidence |-> 0],
     [pulls |-> min_pulls_for_evaluation, mean_reward |-> -3, confidence |-> 8],
     [pulls |-> min_pulls_for_evaluation, mean_reward |-> 0, confidence |-> 5],
     [pulls |-> min_pulls_for_evaluation, mean_reward |-> 0, confidence |-> 8]}

\* _is_new_variant
_is_new_variant(stats, v) == stats[v].pulls < min_pulls_for_evaluation

\* _is_uncertain_variant
_is_uncertain_variant(stats, v) ==
    /\ stats[v].pulls >= min_pulls_for_evaluation
    /\ stats[v].confidence < uncertainty_threshold_confidence

\* _update_blacklist: the active variants other than the base that have been
\* evaluated and whose mean reward is below the threshold.
ToBlacklist(active, stats) ==
    {v \in active \ {base_variant} :
        /\ stats[v].pulls >= min_pulls_for_evaluation
        /\ stats[v].mean_reward < blacklist_threshold_reward}

NewOfAll(available, stats) == {v \in DgVariants : _is_new_variant(stats, v)}

\* new_variants = [v for v in available_for_bandit if self._is_new_variant(v)]
NewVariants(available, stats) == {v \in available : _is_new_variant(stats, v)}

\* uncertain_variants = [v for v in available_for_bandit
\*                       if self._is_uncertain_variant(v) and v not in new_variants]
UncertainVariants(available, stats) ==
    {v \in available : _is_uncertain_variant(stats, v)} \ NewVariants(available, stats)

\* The outcome of a call, with the two sets as they are when it returns.
DgOutcome(kind, value, active, blacklisted) ==
    [kind |-> kind, value |-> value, active |-> active, blacklisted |-> blacklisted]

\* select_variant_for_deployment.  draw_new and draw_uncertain are the two
\* `_random.random() < traffic_split_*` tests.  Past the traffic splits the
\* code reads self.bandit.state.variants; BanditState has no such attribute,
\* so the call raises AttributeError there and returns nothing (the blacklist
\* update stays).
SelectVariant(draw_new, draw_uncertain) ==
    LET moved == ToBlacklist(active_variants, dgStats)
        active == active_variants \ moved
        blacklisted == blacklisted_variants \cup moved
        available_for_bandit == active \ blacklisted
        new_variants == NewVariants(available_for_bandit, dgStats)
        uncertain_variants == UncertainVariants(available_for_bandit, dgStats)
    IN  /\ active_variants' = active
        /\ blacklisted_variants' = blacklisted
        /\ IF available_for_bandit = {}
           THEN dgRet' = DgOutcome("fallback", base_variant, active, blacklisted)
           ELSE IF new_variants # {} /\ draw_new
           THEN \E v \in new_variants : dgRet' = DgOutcome("new", v, active, blacklisted)
           ELSE IF uncertain_variants # {} /\ draw_uncertain
           THEN \E v \in uncertain_variants :
                    dgRet' = DgOutcome("uncertain", v, active, blacklisted)
           ELSE dgRet' = DgOutcome("raised", None, active, blacklisted)
        /\ UNCHANGED dgStats
        /\ UNCHANGED nonDgVars

\* The values of _random.random() a selection draws: the first test is made
\* when there are new variants, the second when nothing has been selected and
\* there are uncertain variants (`and` evaluates its operands in order).
Drawn(u_new, u_uncertain) ==
    LET moved == ToBlacklist(active_variants, dgStats)
        available_for_bandit == (active_variants \ moved) \ (blacklisted_variants \cup moved)
        new_variants == NewVariants(available_for_bandit, dgStats)
        uncertain_variants == UncertainVariants(available_for_bandit, dgStats)
        first == new_variants # {}
        selected == first /\ u_new < traffic_split_new
        second == ~selected /\ uncertain_variants # {}
    IN  IF available_for_bandit = {} THEN << >>
        ELSE (IF first THEN <<u_new>> ELSE << >>) \o (IF second THEN <<u_uncertain>> ELSE << >>)

AddRefusedAboveLimit(active) == Cardinality(active) > max_active_variants + 1

\* if len(self.active_variants) >= self.config.max_active_variants + 1
AddRefusedAtLimit(active) == Cardinality(active) >= max_active_variants + 1

\* if variant_id in self.blacklisted_variants
AddRefusedNever(v, blacklisted) == FALSE

AddRefusedBlacklisted(v, blacklisted) == v \in blacklisted

\* add_variant_to_deployment
AddVariant(v) ==
    /\ IF AddRefusedBlacklisted(v, blacklisted_variants) \/ AddRefusedAtLimit(active_variants)
       THEN UNCHANGED active_variants
       ELSE active_variants' = active_variants \cup {v}
    /\ dgRet' = DgOutcome("add", v, active_variants', blacklisted_variants)
    /\ dgDraw' = << >>
    /\ UNCHANGED <<blacklisted_variants, dgStats>>
    /\ UNCHANGED nonDgVars

\* remove_variant_from_deployment
RemoveVariant(v) ==
    /\ IF v # base_variant /\ v \in active_variants
       THEN active_variants' = active_variants \ {v}
       ELSE UNCHANGED active_variants
    /\ dgRet' = DgOutcome("remove", v, active_variants', blacklisted_variants)
    /\ dgDraw' = << >>
    /\ UNCHANGED <<blacklisted_variants, dgStats>>
    /\ UNCHANGED nonDgVars

\* DeployGuardFull.__init__ with a state file on disk: _load_state takes the
\* two lists as they are in the file and _init_default_state adds the base
\* variant to the active ones.
LoadState(file_active, file_blacklisted) ==
    /\ active_variants' = file_active \cup {base_variant}
    /\ blacklisted_variants' = file_blacklisted
    /\ dgRet' = DgOutcome("load", None, active_variants', blacklisted_variants')
    /\ dgDraw' = << >>
    /\ UNCHANGED dgStats
    /\ UNCHANGED nonDgVars

\* Calls are made and rewarded: the statistics of a variant change.
StatsChange(v, kind) ==
    /\ dgStats' = [dgStats EXCEPT ![v] = kind]
    /\ UNCHANGED <<active_variants, blacklisted_variants, dgRet, dgDraw>>
    /\ UNCHANGED nonDgVars

\* DeployGuardFull.__init__ with no state file, no variant pulled yet.
DgInit ==
    /\ active_variants = {base_variant}
    /\ blacklisted_variants = {}
    /\ dgStats = [v \in DgVariants |-> [pulls |-> 0, mean_reward |-> 0, confidence |-> 0]]
    /\ dgRet = DgOutcome("init", None, {base_variant}, {})
    /\ dgDraw = << >>

DgSelect == \E u_new \in DgSamples, u_uncertain \in DgSamples :
                /\ SelectVariant(u_new < traffic_split_new,
                                 u_uncertain < traffic_split_uncertain)
                /\ dgDraw' = Drawn(u_new, u_uncertain)
DgAdd == \E v \in DgVariants : AddVariant(v)
DgRemove == \E v \in DgVariants : RemoveVariant(v)
DgLoad == \E file_active \in SUBSET DgVariants, file_blacklisted \in SUBSET DgVariants :
              LoadState(file_active, file_blacklisted)
DgStatsChange == \E v \in DgVariants, kind \in DgStatKinds : StatsChange(v, kind)

DeployGuardNext == DgSelect \/ DgAdd \/ DgRemove \/ DgLoad \/ DgStatsChange

\* The guard in use, without a restart from a state file.
DeployOpsNext == DgSelect \/ DgAdd \/ DgRemove \/ DgStatsChange

(***************************************************************************)
(* Part 9: the policy bandit, apps/rl/policy_bandit.py (PolicyBandit), and *)
(* the reward a call pushes to it, apps/dispatcher/rt_fsm.py.              *)
(* Rewards are counted in tenths, alpha and beta in twentieths.            *)
(***************************************************************************)

\* Bounds of the bandit model.
MaxPulls == 3

BanVariantIds == {"v1a", "v2a"}

\* Rewards in [-1, +1], in tenths.
BanRewards == {-10, -3, 5, 10}

\* 1.0 in twentieths.
BanOne == 20

NormalizedRewardUnshifted(reward) == reward

\* normalized_reward = (reward + 1.0) / 2.0, in twentieths
NormalizedReward(reward) == reward + 10

RECURSIVE SumOver(_, _)
SumOver(f, keys) ==
    IF keys = {} THEN 0
    ELSE LET k == CHOOSE x \in keys : TRUE IN f[k] + SumOver(f, keys \ {k})

\* Updates applied so far, over all variants (what MaxPulls bounds).
AllPulls == SumOver(total_pulls, DOMAIN total_pulls)

\* PolicyBandit.add_variant: the variant is registered; its alpha, beta,
\* rewards and pulls are initialised if its id is not in state.alpha.
add_variant(v) ==
    /\ banVariants' = banVariants \cup {v}
    /\ IF v \notin DOMAIN alpha
       THEN /\ alpha' = DictSet(alpha, v, BanOne)
            /\ beta' = DictSet(beta, v, BanOne)
            /\ total_rewards' = DictSet(total_rewards, v, 0)
            /\ total_pulls' = DictSet(total_pulls, v, 0)
       ELSE UNCHANGED <<alpha, beta, total_rewards, total_pulls>>
    /\ banLast' = [op |-> "add_variant", variant |-> v, reward |-> 0]
    /\ UNCHANGED banSession
    /\ UNCHANGED nonBanVars

\* PolicyBandit.update on the state: nothing for an id that is not registered.
Updated(v, reward) ==
    IF v \notin banVariants
    THEN UNCHANGED <<alpha, beta, total_rewards, total_pulls>>
    ELSE /\ alpha' = [alpha EXCEPT ![v] = @ + NormalizedReward(reward)]
         /\ beta' = [beta EXCEPT ![v] = @ + (BanOne - NormalizedReward(reward))]
         /\ total_rewards' = [total_rewards EXCEPT ![v] = @ + reward]
         /\ total_pulls' = [total_pulls EXCEPT ![v] = @ + 1]

\* PolicyBandit.update(variant_id, reward)
update(v, reward) ==
    /\ AllPulls < MaxPulls
    /\ Updated(v, reward)
    /\ banLast' = [op |-> "update", variant |-> v, reward |-> reward]
    /\ UNCHANGED <<banVariants, banSession>>
    /\ UNCHANGED nonBanVars

\* PolicyBandit.reset_variant
reset_variant(v) ==
    /\ v \in banVariants
    /\ alpha' = [alpha EXCEPT ![v] = BanOne]
    /\ beta' = [beta EXCEPT ![v] = BanOne]
    /\ total_rewards' = [total_rewards EXCEPT ![v] = 0]
    /\ total_pulls' = [total_pulls EXCEPT ![v] = 0]
    /\ banLast' = [op |-> "reset_variant", variant |-> v, reward |-> 0]
    /\ UNCHANGED <<banVariants, banSession>>
    /\ UNCHANGED nonBanVars

\* RealtimeFSM.create_session -> _select_policy -> select_policy: with no
\* variant registered PolicyBandit.select raises ValueError and _select_policy
\* returns "v1a"; otherwise the variant with the highest Beta sample, which
\* can be any registered one.
SelectedPolicies == IF banVariants = {} THEN {"v1a"} ELSE banVariants

BanCreateSession ==
    /\ ~banSession.on
    /\ \E v \in SelectedPolicies : banSession' = [policy_variant |-> v, on |-> TRUE]
    /\ banLast' = [op |-> "create_session", variant |-> banSession'.policy_variant,
                   reward |-> 0]
    /\ UNCHANGED <<banVariants, alpha, beta, total_rewards, total_pulls>>
    /\ UNCHANGED nonBanVars

\* RealtimeFSM._handle_call_end: reward = calc_reward(signals), then
\* update_policy_reward(session.policy_variant, reward).
BanCallEnd(reward) ==
    /\ banSession.on
    /\ AllPulls < MaxPulls
    /\ Updated(banSession.policy_variant, reward)
    /\ banSession' = [banSession EXCEPT !.on = FALSE]
    /\ banLast' = [op |-> "call_end", variant |-> banSession.policy_variant,
                   reward |-> reward]
    /\ UNCHANGED banVariants
    /\ UNCHANGED nonBanVars

\* policy_bandit = PolicyBandit() with no state file: no variant registered.
BanInit ==
    /\ banVariants = {}
    /\ alpha = EmptyDict
    /\ beta = EmptyDict
    /\ total_rewards = EmptyDict
    /\ total_pulls = EmptyDict
    /\ banSession = [policy_variant |-> "v1a", on |-> FALSE]
    /\ banLast = [op |-> "init", variant |-> "v1a", reward |-> 0]

BanAdd == \E v \in BanVariantIds : add_variant(v)
BanUpdate == \E v \in BanVariantIds, reward \in BanRewards : update(v, reward)
BanReset == \E v \in BanVariantIds : reset_variant(v)
BanCallEnds == \E reward \in BanRewards : BanCallEnd(reward)

BanditNext == BanAdd \/ BanUpdate \/ BanReset \/ BanCreateSession \/ BanCallEnds

(***************************************************************************)
(* Part 10.  Reward calculation (src/apps/rl/reward_calc.py).              *)
(*                                                                         *)
(* Rewards are rationals with denominators 2, 3 and optimal_duration_sec;  *)
(* they are held as integers in nine-hundredths, so that every quotient    *)
(* the code forms is exact for whole seconds.                              *)
(***************************************************************************)

\* RewardConfig defaults, in nine-hundredths (1.0 is 900).
resolution_weight == 540
rating_weight == 180
barge_in_weight == -90
repeats_weight == -90
handover_weight == -90
duration_bonus_max == 180
min_reward == -900
max_reward == 900

\* RewardConfig.optimal_duration_sec, in seconds.
optimal_duration_sec == 180

\* The greatest barge_in_count and repeats passed.
MaxCount == 4

\* The call durations passed, in seconds: none, short, optimal, long, very long.
RwDurations == {0, 90, 180, 400, 2000}

\* The signal sets passed to calc_reward.
RwSignalSets ==
    [resolution : BOOLEAN, user_rating : {0} \cup (1..5),
     barge_in_count : 0..MaxCount, repeats : 0..MaxCount,
     handover : BOOLEAN, duration_sec : RwDurations]

\* user_rating is None: the signal is absent.
NoRating == 0

Min(a, b) == IF a <= b THEN a ELSE b

Max(a, b) == IF a >= b THEN a ELSE b

Abs(a) == IF a >= 0 THEN a ELSE -a

Unclamped(lo, hi, x) == x

\* max(lo, min(hi, x))
Clamp(lo, hi, x) == Max(lo, Min(hi, x))

\* RewardCalculator._calc_duration_bonus
_calc_duration_bonus(duration_sec) ==
    IF duration_sec <= 0 THEN 0
    ELSE LET optimal == optimal_duration_sec
             max_bonus == duration_bonus_max
             deviation == Abs(duration_sec - optimal)
             bonus == (max_bonus * (optimal - deviation)) \div optimal
         IN  Clamp(-max_bonus, max_bonus, bonus)

\* RewardCalculator.calc_reward, the sum before the final clamp.
RewardSum(signals) ==
      (IF signals.resolution THEN resolution_weight ELSE 0)
    + (IF signals.user_rating # NoRating
       THEN (rating_weight * (signals.user_rating - 3)) \div 2 ELSE 0)
    + (barge_in_weight * Min(signals.barge_in_count, 3)) \div 3
    + (repeats_weight * Min(signals.repeats, 3)) \div 3
    + (IF signals.handover THEN handover_weight ELSE 0)
    + _calc_duration_bonus(signals.duration_sec)

\* RewardCalculator.calc_reward
calc_reward(signals) == Clamp(min_reward, max_reward, RewardSum(signals))

RwInit ==
    /\ rwSignals = [resolution |-> FALSE, user_rating |-> NoRating, barge_in_count |-> 0,
                    repeats |-> 0, handover |-> FALSE, duration_sec |-> 0]
    /\ rwReward = 0
    /\ rwCalls = 0

\* The first call of calc_reward, with some signal set.
RwCalc ==
    \E signals \in RwSignalSets :
        /\ rwCalls = 0
        /\ rwSignals' = signals
        /\ rwReward' = calc_reward(signals)
        /\ rwCalls' = 1
        /\ UNCHANGED nonRwVars

\* A further call with the signals of the last one; the function reads
\* nothing but its argument and the configuration.
RwCalcAgain ==
    /\ rwCalls = 1
    /\ rwReward' = calc_reward(rwSignals)
    /\ rwCalls' = 2
    /\ UNCHANGED rwSignals
    /\ UNCHANGED nonRwVars

RewardNext == RwCalc \/ RwCalcAgain

(***************************************************************************)
(* Part 11.  Persistence of the bandit and deploy state                    *)
(* (src/apps/rl/policy_bandit.py, src/apps/rl/deploy_guard.py).            *)
(*                                                                         *)
(* A file is what open/write/close and rename leave on disk.  json.dump    *)
(* writes the document in pieces; a save can be cut short by a crash at    *)
(* any of them, and another process can read the file between any two.     *)
(***************************************************************************)

\* The greatest number of state changes that are saved.
MaxSaves == 2

\* The number of pieces json.dump writes a document in.
SaveChunks == 2

NoFile == [exists |-> FALSE, version |-> 0, written |-> 0]

\* open(path, 'w'): the file exists and is empty, whatever it held.
Truncated(version) == [exists |-> TRUE, version |-> version, written |-> 0]

\* A file that holds a whole document.
IsComplete(f) == f.exists /\ f.written = SaveChunks

\* json.load on a file: the version it holds, or a JSONDecodeError.
JsonLoad(f) ==
    IF IsComplete(f) THEN [ok |-> TRUE, version |-> f.version]
    ELSE [ok |-> FALSE, version |-> 0]

\* PolicyBandit._save_state and DeployGuardFull._save_state, up to the open:
\* `with open(self.state_file, 'w') as f` truncates the state file itself.
SaveInPlaceOpen ==
    /\ savePc = "idle"
    /\ saveMem < MaxSaves
    /\ saveMem' = saveMem + 1
    /\ savePrev' = saveFile.version
    /\ saveFile' = Truncated(saveMem + 1)
    /\ savePc' = "writing"
    /\ UNCHANGED <<saveTmp, saveRead>>
    /\ UNCHANGED nonSaveVars

\* json.dump(..., f) writes the next piece; leaving the with block closes the file.
SaveInPlaceWrite ==
    /\ savePc = "writing"
    /\ saveFile' = [saveFile EXCEPT !.written = @ + 1]
    /\ savePc' = IF saveFile.written + 1 = SaveChunks THEN "idle" ELSE "writing"
    /\ UNCHANGED <<saveMem, savePrev, saveTmp, saveRead>>
    /\ UNCHANGED nonSaveVars

\* save_state(path, state), up to the open: tmp = f"{path}.tmp"; open(tmp, "w").
SaveTmpOpen ==
    /\ savePc = "idle"
    /\ saveMem < MaxSaves
    /\ saveMem' = saveMem + 1
    /\ savePrev' = saveFile.version
    /\ saveTmp' = Truncated(saveMem + 1)
    /\ savePc' = "tmp_writing"
    /\ UNCHANGED <<saveFile, saveRead>>
    /\ UNCHANGED nonSaveVars

\* json.dump(state, f) into the temporary file.
SaveTmpWrite ==
    /\ savePc = "tmp_writing"
    /\ saveTmp' = [saveTmp EXCEPT !.written = @ + 1]
    /\ savePc' = IF saveTmp.written + 1 = SaveChunks THEN "tmp_written" ELSE "tmp_writing"
    /\ UNCHANGED <<saveMem, savePrev, saveFile, saveRead>>
    /\ UNCHANGED nonSaveVars

\* os.replace(tmp, path) / os.rename(tmp, path)
SaveRename ==
    /\ savePc = "tmp_written"
    /\ saveFile' = saveTmp
    /\ saveTmp' = NoFile
    /\ savePc' = "idle"
    /\ UNCHANGED <<saveMem, savePrev, saveRead>>
    /\ UNCHANGED nonSaveVars

\* The process dies in the middle of a save; the files stay as they are.
SaveCrash ==
    /\ savePc \in {"writing", "tmp_writing", "tmp_written"}
    /\ savePc' = "crashed"
    /\ UNCHANGED <<saveMem, savePrev, saveFile, saveTmp, saveRead>>
    /\ UNCHANGED nonSaveVars

\* _load_state at the next start: the file's state, or the defaults when the
\* file is missing or json.load raises.
SaveRestart ==
    /\ savePc = "crashed"
    /\ saveMem' = IF JsonLoad(saveFile).ok THEN saveFile.version ELSE 0
    /\ saveRead' = [JsonLoad(saveFile) EXCEPT !.version = IF saveFile.exists THEN saveFile.version ELSE 0]
    /\ savePc' = "idle"
    /\ UNCHANGED <<savePrev, saveFile, saveTmp>>
    /\ UNCHANGED nonSaveVars

\* Another process reads the state file while a save is in progress.
SaveConcurrentRead ==
    /\ savePc \in {"writing", "tmp_writing", "tmp_written"}
    /\ saveFile.exists
    /\ saveRead' = [JsonLoad(saveFile) EXCEPT !.version = saveFile.version]
    /\ UNCHANGED <<saveMem, savePrev, saveFile, saveTmp, savePc>>
    /\ UNCHANGED nonSaveVars

\* PolicyBandit.__init__ / DeployGuardFull.__init__ without a state file.
SaveInit ==
    /\ saveMem = 0
    /\ savePrev = 0
    /\ saveFile = NoFile
    /\ saveTmp = NoFile
    /\ savePc = "idle"
    /\ saveRead = [ok |-> TRUE, version |-> 0]

SaveNext ==
    \/ SaveInPlaceOpen
    \/ SaveInPlaceWrite
    \/ SaveTmpOpen
    \/ SaveTmpWrite
    \/ SaveRename
    \/ SaveCrash
    \/ SaveRestart
    \/ SaveConcurrentRead

(***************************************************************************)
(* Part 12.  The realtime FSM (src/apps/dispatcher/rt_fsm_realtime.py).    *)
(*                                                                         *)
(* One session.  Every process_* coroutine runs to its end without         *)
(* suspending, except process_barge_in and process_error, which sleep      *)
(* between their two transitions; other coroutines run during the sleep.   *)
(* process_audio_chunk changes only audio_buffer and is left out.           *)
(***************************************************************************)

\* The greatest number of steps of the FSM.
MaxRtEvents == 7

\* The greatest number of coroutines asleep at once.
MaxSleepers == 2

\* RealtimeFSM.state_transitions
state_transitions ==
    [s \in {"listening", "thinking", "speaking", "barred", "error"} |->
        CASE s = "listening" -> {"thinking", "barred", "error"}
          [] s = "thinking"  -> {"speaking", "barred", "error"}
          [] s = "speaking"  -> {"listening", "barred", "error"}
          [] s = "barred"    -> {"listening", "error"}
          [] s = "error"     -> {"listening"}]

\* RealtimeFSM._transition_to: the state afterwards; a transition that is not
\* in the table is logged and leaves the state as it is.
_transition_to(old_state, new_state) ==
    IF new_state \notin state_transitions[old_state] THEN old_state ELSE new_state

\* A step of the FSM: the clock moves on and the step is noted.
RtStep(op) ==
    /\ rtNow < MaxRtEvents
    /\ rtNow' = rtNow + 1
    /\ rtLast' = [op |-> op, at |-> rtNow + 1, from |-> rtState]
    /\ UNCHANGED nonRtVars

\* The same for a coroutine that does not touch llm_complete_time.
RtStepOf(op) == RtStep(op) /\ UNCHANGED llm_complete_time

\* RealtimeFSM.process_stt_final
process_stt_final ==
    /\ RtStepOf("stt_final")
    /\ IF rtState = "listening"
       THEN /\ rtState' = _transition_to(rtState, "thinking")
            /\ stt_timestamp' = rtNow + 1
       ELSE UNCHANGED <<rtState, stt_timestamp>>
    /\ UNCHANGED <<llm_tokens, llm_response, tts_frames, first_token_time,
                   first_audio_time, rtSleepers>>

\* RealtimeFSM.process_llm_token
process_llm_token ==
    /\ RtStepOf("llm_token")
    /\ IF rtState = "thinking"
       THEN /\ IF llm_tokens = << >>
               THEN /\ rtState' = _transition_to(rtState, "speaking")
                    /\ first_token_time' = rtNow + 1
               ELSE UNCHANGED <<rtState, first_token_time>>
            /\ llm_tokens' = Append(llm_tokens, "token")
            /\ llm_response' = llm_response + 1
       ELSE IF rtState = "speaking"
       THEN /\ llm_tokens' = Append(llm_tokens, "token")
            /\ llm_response' = llm_response + 1
            /\ UNCHANGED <<rtState, first_token_time>>
       ELSE UNCHANGED <<rtState, first_token_time, llm_tokens, llm_response>>
    /\ UNCHANGED <<tts_frames, stt_timestamp, first_audio_time, rtSleepers>>

\* RealtimeFSM.process_llm_complete: outside SPEAKING it logs a warning.
process_llm_complete ==
    /\ RtStep("llm_complete")
    /\ llm_complete_time' = IF rtState = "speaking" THEN rtNow + 1 ELSE llm_complete_time
    /\ UNCHANGED <<rtState, llm_tokens, llm_response, tts_frames, stt_timestamp,
                   first_token_time, first_audio_time, rtSleepers>>

\* RealtimeFSM.process_tts_audio
process_tts_audio ==
    /\ RtStepOf("tts_audio")
    /\ IF rtState = "speaking"
       THEN /\ first_audio_time' = IF tts_frames = << >> THEN rtNow + 1 ELSE first_audio_time
            /\ tts_frames' = Append(tts_frames, "frame")
       ELSE UNCHANGED <<first_audio_time, tts_frames>>
    /\ UNCHANGED <<rtState, llm_tokens, llm_response, stt_timestamp, first_token_time,
                   rtSleepers>>

\* RealtimeFSM.process_tts_complete, with _calculate_metrics and
\* SessionState.reset_for_next_turn: the latencies computed are reset in the
\* same call.
process_tts_complete ==
    /\ RtStepOf("tts_complete")
    /\ IF rtState = "speaking"
       THEN /\ rtState' = _transition_to(rtState, "listening")
            /\ llm_tokens' = << >>
            /\ llm_response' = 0
            /\ tts_frames' = << >>
            /\ stt_timestamp' = 0
            /\ first_token_time' = 0
            /\ first_audio_time' = 0
       ELSE UNCHANGED <<rtState, llm_tokens, llm_response, tts_frames, stt_timestamp,
                        first_token_time, first_audio_time>>
    /\ UNCHANGED rtSleepers

\* A coroutine that has made its first transition and sleeps.
Sleeper(kind) == [kind |-> kind, startedIn |-> rtState, at |-> rtNow + 1]

\* RealtimeFSM.process_barge_in up to `await asyncio.sleep(0.1)`
process_barge_in ==
    /\ RtStepOf("barge_in")
    /\ Len(rtSleepers) < MaxSleepers
    /\ rtState' = _transition_to(rtState, "barred")
    /\ rtSleepers' = Append(rtSleepers, Sleeper("barge_in"))
    /\ UNCHANGED <<llm_tokens, llm_response, tts_frames, stt_timestamp,
                   first_token_time, first_audio_time>>

\* RealtimeFSM.process_error up to `await asyncio.sleep(1.0)`
process_error ==
    /\ RtStepOf("error")
    /\ Len(rtSleepers) < MaxSleepers
    /\ rtState' = _transition_to(rtState, "error")
    /\ rtSleepers' = Append(rtSleepers, Sleeper("error"))
    /\ UNCHANGED <<llm_tokens, llm_response, tts_frames, stt_timestamp,
                   first_token_time, first_audio_time>>

\* The sleeps end in the order of their deadlines: a barge_in (0.1 s) after
\* every barge_in begun before it, an error (1.0 s) after every coroutine
\* begun before it.
MayWake(i) ==
    IF rtSleepers[i].kind = "error" THEN i = 1
    ELSE \A j \in 1..(i - 1) : rtSleepers[j].kind # "barge_in"

WithoutSleeper(i) ==
    [k \in 1..(Len(rtSleepers) - 1) |-> IF k < i THEN rtSleepers[k] ELSE rtSleepers[k + 1]]

\* process_barge_in / process_error after the sleep:
\* `await self._transition_to(call_id, FSMState.LISTENING, event)`
SleepOver(i) ==
    /\ i \in 1..Len(rtSleepers)
    /\ MayWake(i)
    /\ RtStepOf(rtSleepers[i].kind \o "_return")
    /\ rtState' = _transition_to(rtState, "listening")
    /\ rtSleepers' = WithoutSleeper(i)
    /\ UNCHANGED <<llm_tokens, llm_response, tts_frames, stt_timestamp,
                   first_token_time, first_audio_time>>

\* SessionState.__init__
RtInit ==
    /\ rtState = "listening"
    /\ llm_tokens = << >>
    /\ llm_response = 0
    /\ tts_frames = << >>
    /\ stt_timestamp = 0
    /\ first_token_time = 0
    /\ first_audio_time = 0
    /\ llm_complete_time = 0
    /\ rtSleepers = << >>
    /\ rtNow = 0
    /\ rtLast = [op |-> "init", at |-> 0, from |-> "listening"]

RtSleepOver == \E i \in 1..MaxSleepers : SleepOver(i)

RtFsmNext ==
    \/ process_stt_final
    \/ process_llm_token
    \/ process_llm_complete
    \/ process_tts_audio
    \/ process_tts_complete
    \/ process_barge_in
    \/ process_error
    \/ RtSleepOver

(***************************************************************************)
(* Part 13.  The audio buffer of a gateway session,                        *)
(* Session.handle_audio_chunk (src/apps/telephony_bridge/ws_realtime.py).  *)
(*                                                                         *)
(* The n-th audio_chunk carries the timestamp n.                           *)
(***************************************************************************)

\* MAX_AUDIO_BUFFER_SIZE = int(os.getenv('WS_MAX_AUDIO_BUFFER', '50'))
MAX_AUDIO_BUFFER_SIZE == 50

\* The greatest number of audio_chunk events handled.
MaxChunks == 53

\* The greatest number of them whose audio is not base64.
MaxDecodeErrors == 1

\* The attributes of apps.monitor.metrics.Metrics that count backpressure.
MetricsBackpressureAttrs == {"tom_audio_frames_dropped_total", "tom_ws_backpressure_events_total"}

\* `self.gateway.metrics.tom_pipeline_backpressure_total`: the attribute
\* lookup raises AttributeError unless Metrics has the attribute.
BackpressureIncRaises == "tom_pipeline_backpressure_total" \notin MetricsBackpressureAttrs

\* if len(self.audio_buffer) > MAX_AUDIO_BUFFER_SIZE
BufferOverfull(buffer) == Len(buffer) > MAX_AUDIO_BUFFER_SIZE

\* Session.handle_audio_chunk for the event with the next timestamp; b64_ok
\* tells whether base64.b64decode(event.audio) succeeds.  Every exception is
\* caught and logged by the handler's `except Exception`, which ends the call.
handle_audio_chunk(b64_ok) ==
    LET timestamp == abChunks + 1
        out(o) == [timestamp |-> timestamp, outcome |-> o]
        appended == Append(audio_buffer, timestamp)
    IN  /\ abChunks < MaxChunks
        /\ abChunks' = timestamp
        /\ b64_ok \/ abDecodeErrors < MaxDecodeErrors
        /\ abDecodeErrors' = IF b64_ok THEN abDecodeErrors ELSE abDecodeErrors + 1
        /\ UNCHANGED abProvider
        /\ UNCHANGED nonAbVars
        /\ IF ~abProvider
           THEN /\ abLast' = out("no_provider")
                /\ UNCHANGED <<audio_buffer, last_audio_time, abSent, backpressure_total>>
           ELSE IF ~b64_ok
           THEN /\ abLast' = out("decode_error")
                /\ UNCHANGED <<audio_buffer, last_audio_time, abSent, backpressure_total>>
           ELSE IF BufferOverfull(appended)
           THEN /\ audio_buffer' = Tail(appended)
                /\ IF BackpressureIncRaises
                   THEN /\ abLast' = out("attribute_error")
                        /\ UNCHANGED <<last_audio_time, abSent, backpressure_total>>
                   ELSE /\ backpressure_total' = backpressure_total + 1
                        /\ last_audio_time' = timestamp
                        /\ abSent' = Append(abSent, timestamp)
                        /\ abLast' = out("sent")
           ELSE /\ audio_buffer' = appended
                /\ last_audio_time' = timestamp
                /\ abSent' = Append(abSent, timestamp)
                /\ abLast' = out("sent")
                /\ UNCHANGED backpressure_total

\* Session.open_provider_session succeeds: provider_session is set.
AbOpenProvider ==
    /\ ~abProvider
    /\ abProvider' = TRUE
    /\ UNCHANGED <<audio_buffer, last_audio_time, abSent, backpressure_total, abChunks,
                   abDecodeErrors, abLast>>
    /\ UNCHANGED nonAbVars

\* Session.__init__
AbInit ==
    /\ audio_buffer = << >>
    /\ last_audio_time = 0
    /\ abProvider = FALSE
    /\ abSent = << >>
    /\ backpressure_total = 0
    /\ abChunks = 0
    /\ abDecodeErrors = 0
    /\ abLast = [timestamp |-> 0, outcome |-> "init"]

AbAudioChunk == \E b64_ok \in BOOLEAN : handle_audio_chunk(b64_ok)

AudioBufferNext == AbAudioChunk \/ AbOpenProvider

(***************************************************************************)
(* Part 14.  Replay protection: TelephonyBridge.authenticate_jwt           *)
(* (apps/telephony_bridge/ws.py).  A call decodes the token, awaits        *)
(* redis_client.exists on the nonce key and then awaits redis_client.setex *)
(* on it; the event loop may run another call at each await.               *)
(***************************************************************************)
MaxAuthCalls == 3
NjCalls == 1..MaxAuthCalls
NjNonces == {"n1", "n2"}
NoNonce == "None"

\* jwt.decode succeeded and the call_id matches, or "Call ID mismatch" is
\* raised (the handler of jwt.InvalidTokenError re-raises it with a prefix).
NjDecode(c, n, call_id_ok) ==
    /\ njPc[c] = "idle"
    /\ njNonce' = [njNonce EXCEPT ![c] = n]
    /\ njPc' = [njPc EXCEPT ![c] =
                  IF ~call_id_ok THEN "Call ID mismatch"
                  ELSE IF n = NoNonce THEN "returned"
                  ELSE "exists"]
    /\ UNCHANGED <<redisNonces, njExpired>>
    /\ UNCHANGED nonNjVars

\* `if await self.redis_client.exists(nonce_key): raise ...`
NjExists(c) ==
    /\ njPc[c] = "exists"
    /\ njPc' = [njPc EXCEPT ![c] =
                  IF njNonce[c] \in redisNonces
                  THEN "Nonce bereits verwendet"
                  ELSE "setex"]
    /\ UNCHANGED <<njNonce, redisNonces, njExpired>>
    /\ UNCHANGED nonNjVars

\* `await self.redis_client.setex(nonce_key, ttl, "used")`, then the return.
NjSetex(c) ==
    /\ njPc[c] = "setex"
    /\ redisNonces' = redisNonces \cup {njNonce[c]}
    /\ njPc' = [njPc EXCEPT ![c] = "returned"]
    /\ UNCHANGED <<njNonce, njExpired>>
    /\ UNCHANGED nonNjVars

\* Redis drops a key when its TTL is over.
NjExpire(n) ==
    /\ n \in redisNonces
    /\ n \notin njExpired
    /\ redisNonces' = redisNonces \ {n}
    /\ njExpired' = njExpired \cup {n}
    /\ UNCHANGED <<njPc, njNonce>>
    /\ UNCHANGED nonNjVars

NjInit ==
    /\ njPc = [c \in NjCalls |-> "idle"]
    /\ njNonce = [c \in NjCalls |-> NoNonce]
    /\ redisNonces = {}
    /\ njExpired = {}

NjCallDecode == \E c \in NjCalls, n \in NjNonces \cup {NoNonce}, ok \in BOOLEAN :
                    NjDecode(c, n, ok)
NjCallExists == \E c \in NjCalls : NjExists(c)
NjCallSetex == \E c \in NjCalls : NjSetex(c)
NjKeyExpire == \E n \in NjNonces : NjExpire(n)

NonceNext == NjCallDecode \/ NjCallExists \/ NjCallSetex \/ NjKeyExpire

(***************************************************************************)
(* Part 15.  Rate limiting: TokenBucket and ConnectionManager              *)
(* (apps/telephony_bridge/ws.py).  Time is counted in units of 1 / rate    *)
(* seconds, so that elapsed * rate is the number of units elapsed.         *)
(***************************************************************************)
MAX_RATE_LIMIT == 120
MaxClock == 1
TbConns == {"c1", "c2"}
NoBucket == [tokens |-> -1, last_update |-> -1]
NoCheck == [conn |-> "None", ret |-> FALSE, nth |-> -1]

\* TokenBucket.__init__(rate, capacity) at time `at`.
TokenBucket(capacity, at) == [tokens |-> capacity, last_update |-> at]

\* `self.tokens = min(self.capacity, self.tokens + elapsed * self.rate)`
Refill(tokens, elapsed, capacity) == Min(capacity, tokens + elapsed)

\* `if self.tokens >= tokens`
HasMoreThan(have, wanted) == have > wanted

HasTokens(have, wanted) == have >= wanted

\* TokenBucket.consume(tokens = 1): the bucket afterwards and the value returned.
consume(bucket, at) ==
    LET refilled == Refill(bucket.tokens, at - bucket.last_update, MAX_RATE_LIMIT)
    IN  IF HasTokens(refilled, 1)
        THEN [bucket |-> [tokens |-> refilled - 1, last_update |-> at], ret |-> TRUE]
        ELSE [bucket |-> [tokens |-> refilled, last_update |-> at], ret |-> FALSE]

\* ConnectionManager.add_connection: a fresh bucket replaces whatever was there.
add_connection(c) ==
    /\ rate_limiters' = [rate_limiters EXCEPT ![c] = TokenBucket(MAX_RATE_LIMIT, tbNow)]
    /\ tbFresh' = [tbFresh EXCEPT ![c] = 0]
    /\ tbLast' = NoCheck
    /\ UNCHANGED tbNow
    /\ UNCHANGED nonTbVars

\* ConnectionManager.remove_connection.
remove_connection(c) ==
    /\ rate_limiters[c] # NoBucket
    /\ rate_limiters' = [rate_limiters EXCEPT ![c] = NoBucket]
    /\ tbFresh' = [tbFresh EXCEPT ![c] = -1]
    /\ tbLast' = NoCheck
    /\ UNCHANGED tbNow
    /\ UNCHANGED nonTbVars

\* ConnectionManager.check_rate_limit: False for an unknown connection.
check_rate_limit(c) ==
    /\ IF rate_limiters[c] = NoBucket
       THEN /\ tbLast' = [conn |-> c, ret |-> FALSE, nth |-> -1]
            /\ UNCHANGED <<rate_limiters, tbFresh>>
       ELSE \E res \in {consume(rate_limiters[c], tbNow)} :
            /\ rate_limiters' = [rate_limiters EXCEPT ![c] = res.bucket]
            /\ tbLast' = [conn |-> c, ret |-> res.ret, nth |-> tbFresh[c]]
            /\ tbFresh' = [tbFresh EXCEPT ![c] = IF @ >= 0 /\ @ <= MAX_RATE_LIMIT THEN @ + 1 ELSE @]
    /\ UNCHANGED tbNow
    /\ UNCHANGED nonTbVars

\* The clock advances by one unit.
TbTick ==
    /\ tbNow < MaxClock
    /\ tbNow' = tbNow + 1
    /\ tbFresh' = [c \in TbConns |-> -1]
    /\ tbLast' = NoCheck
    /\ UNCHANGED rate_limiters
    /\ UNCHANGED nonTbVars

TbInit ==
    /\ rate_limiters = [c \in TbConns |-> NoBucket]
    /\ tbNow = 0
    /\ tbFresh = [c \in TbConns |-> -1]
    /\ tbLast = NoCheck

TbAdd == \E c \in TbConns : add_connection(c)
TbRemove == \E c \in TbConns : remove_connection(c)
TbCheck == \E c \in TbConns : check_rate_limit(c)

RateLimitNext == TbAdd \/ TbRemove \/ TbCheck \/ TbTick

(***************************************************************************)
(* Part 16.  LocalRealtimeSession (apps/realtime/local_realtime.py): open, *)
(* send_audio, cancel and the VAD task.                                    *)
(***************************************************************************)
MaxLrBuffer == 12
CheckVadMinChunks == 10

\* _trigger_stt with stt_task None: the buffer is emptied, then
\* asyncio.create_task is handed the async generator _run_stt(audio_data)
\* makes, which is not a coroutine: TypeError, and no task is started.
_trigger_stt == [buffer |-> 0, raises |-> TRUE, started |-> 0]

\* LocalRealtimeSession.open: nothing when connected; else the flag is
\* cleared and the VAD task is created.
LrOpen ==
    /\ ~lrConnected
    /\ lrConnected' = TRUE
    /\ cancel_event' = FALSE
    /\ vad_task' = "running"
    /\ UNCHANGED <<lrBuffer, lrSilent, lrStt, lrCancelReturned, lrRaised>>
    /\ UNCHANGED nonLrVars

\* open() on a connected session returns at once.
LrOpenAgain ==
    /\ lrConnected
    /\ lrRaised' = FALSE
    /\ UNCHANGED <<lrConnected, cancel_event, vad_task, lrBuffer, lrSilent, lrStt,
                   lrCancelReturned>>
    /\ UNCHANGED nonLrVars

\* LocalRealtimeSession.send_audio with _check_vad; `late` says whether more
\* than 0.5 s have passed since last_audio_time after _check_vad's sleep.
LrSendAudio(late) ==
    /\ lrConnected
    /\ lrBuffer < MaxLrBuffer
    /\ lrSilent' = FALSE
    /\ IF lrBuffer + 1 > CheckVadMinChunks /\ late
       THEN /\ lrBuffer' = _trigger_stt.buffer
            /\ lrRaised' = _trigger_stt.raises
            /\ lrStt' = lrStt + _trigger_stt.started
       ELSE /\ lrBuffer' = lrBuffer + 1
            /\ lrRaised' = FALSE
            /\ UNCHANGED lrStt
    /\ UNCHANGED <<lrConnected, cancel_event, vad_task, lrCancelReturned>>
    /\ UNCHANGED nonLrVars

\* More than silence_duration_ms pass without audio.
LrSilence ==
    /\ lrConnected
    /\ ~lrSilent
    /\ lrSilent' = TRUE
    /\ UNCHANGED <<lrConnected, cancel_event, vad_task, lrBuffer, lrStt,
                   lrCancelReturned, lrRaised>>
    /\ UNCHANGED nonLrVars

\* One round of _vad_loop: the loop ends when the session is closed or the
\* cancel event is set; after the sleep, silence with a non-empty buffer
\* calls _trigger_stt, whose exception ends the task.
LrVadLoop ==
    /\ vad_task = "running"
    /\ IF ~lrConnected \/ cancel_event
       THEN /\ vad_task' = "done"
            /\ UNCHANGED <<lrBuffer, lrStt>>
       ELSE IF lrSilent /\ lrBuffer > 0
       THEN /\ lrBuffer' = _trigger_stt.buffer
            /\ lrStt' = lrStt + _trigger_stt.started
            /\ vad_task' = IF _trigger_stt.raises THEN "failed" ELSE "running"
       ELSE UNCHANGED <<vad_task, lrBuffer, lrStt>>
    /\ UNCHANGED <<lrConnected, cancel_event, lrSilent, lrCancelReturned, lrRaised>>
    /\ UNCHANGED nonLrVars

\* LocalRealtimeSession.cancel: sets the event, drops the tasks and the buffer.
LrCancel ==
    /\ lrConnected
    /\ cancel_event' = TRUE
    /\ lrBuffer' = 0
    /\ lrCancelReturned' = TRUE
    /\ lrRaised' = FALSE
    /\ UNCHANGED <<lrConnected, vad_task, lrSilent, lrStt>>
    /\ UNCHANGED nonLrVars

LrInit ==
    /\ lrConnected = FALSE
    /\ cancel_event = FALSE
    /\ vad_task = "none"
    /\ lrBuffer = 0
    /\ lrSilent = FALSE
    /\ lrStt = 0
    /\ lrCancelReturned = FALSE
    /\ lrRaised = FALSE

LrSend == \E late \in BOOLEAN : LrSendAudio(late)

LocalSessionNext == LrOpen \/ LrOpenAgain \/ LrSend \/ LrSilence \/ LrVadLoop \/ LrCancel

(***************************************************************************)
(* Specifications                                                          *)
(***************************************************************************)

vars == <<fsmVars, jwtVars, gwVars, frameVars, sessVars, turnVars, foVars, dgVars, banVars, rwVars, saveVars, rtVars, abVars, njVars, tbVars, lrVars>>

\* Every specification starts from the state after construction.
Init == FsmInit /\ JwtInit /\ GwInit /\ FrameInit /\ SessInit /\ TurnInit /\ FoInit /\ DgInit /\ BanInit /\ RwInit /\ SaveInit /\ RtInit /\ AbInit /\ NjInit /\ TbInit /\ LrInit

SpecFSM == Init /\ [][FsmNext]_vars

SpecJwt == Init /\ [][JwtNext]_vars

SpecGw == Init /\ [][GwNext]_vars

\* The gateway with its own steps taken whenever they can be: the event loop
\* runs every handler that is ready.  What a client sends, and when, is not
\* the gateway's to decide.
SpecGwFair ==
    /\ Init /\ [][GwNext]_vars
    /\ WF_vars(GwOpenProvider) /\ WF_vars(GwLoopEnd)
    /\ WF_vars(GwTeardownClose) /\ WF_vars(GwTeardownDel)

SpecFrames == Init /\ [][FramesNext]_vars

\* The event loop runs a frame loop that has a frame to read.
SpecSession == Init /\ [][SessionNext]_vars /\ WF_vars(SessionDispatch)

SpecPump == Init /\ [][PumpNext]_vars
SpecTurn == Init /\ [][TurnNext]_vars
SpecFailover == Init /\ [][FailoverNext]_vars
SpecDeployGuard == Init /\ [][DeployGuardNext]_vars
SpecDeployOps == Init /\ [][DeployOpsNext]_vars
SpecBandit == Init /\ [][BanditNext]_vars
SpecReward == Init /\ [][RewardNext]_vars
SpecSave == Init /\ [][SaveNext]_vars
SpecRtFsm == Init /\ [][RtFsmNext]_vars
SpecAudioBuffer == Init /\ [][AudioBufferNext]_vars
SpecNonce == Init /\ [][NonceNext]_vars
SpecRateLimit == Init /\ [][RateLimitNext]_vars
SpecLocalSession == Init /\ [][LocalSessionNext]_vars
                        /\ WF_vars(LrVadLoop) /\ WF_vars(LrSilence) /\ WF_vars(LrOpen)

(***************************************************************************)
(* Properties of the dispatcher FSM                                        *)
(***************************************************************************)

\* C1: ENDED is absorbing.  A CallSession whose state is ENDED stays ENDED in
\* every step, and a handle_event(call_id, e) on a call_id whose registered
\* session is ENDED returns False, for every event e.
C1_EndedAbsorbing ==
    [][/\ \A ref \in 1..Len(callSessions) :
             callSessions[ref].state = "ended" => callSessions'[ref].state = "ended"
       /\ \A call_id \in DOMAIN sessions :
             (/\ callSessions[sessions[call_id]].state = "ended"
              /\ fsmLast'.op = "handle_event"
              /\ fsmLast'.call_id = call_id) => fsmRet' = FALSE]_vars

\* C1 witness: handle_event was called on a registered session that is ENDED
\* and returned False.
C1_Witness ==
    /\ fsmLast.op = "handle_event"
    /\ fsmLast.call_id \in DOMAIN sessions
    /\ callSessions[sessions[fsmLast.call_id]].state = "ended"
    /\ fsmRet = FALSE

\* C2 (as claimed): every session in ENDED, whichever event took it there, has
\* had exactly one reward pushed to the bandit, and a session not in ENDED none.
C2_OneRewardPerEndedCall ==
    \A ref \in 1..Len(callSessions) :
        rewardPushes[ref] = IF callSessions[ref].state = "ended" THEN 1 ELSE 0

\* C3: handle_event with an event that the table does not list for the
\* session's current state, or for a call_id that has no session, returns
\* False and changes neither the registry nor any session's state or log.
C3_UnlistedIgnored ==
    [][(/\ fsmLast'.op = "handle_event"
        /\ \/ fsmLast'.call_id \notin DOMAIN sessions
           \/ fsmLast'.event \notin
                  DOMAIN transitions[callSessions[sessions[fsmLast'.call_id]].state])
       => (/\ fsmRet' = FALSE
           /\ callSessions' = callSessions
           /\ sessions' = sessions)]_vars

\* C3 witness: handle_event returned False for a registered, not yet ended
\* session because the event is not listed for its state.
C3_Witness ==
    /\ fsmLast.op = "handle_event"
    /\ fsmLast.call_id \in DOMAIN sessions
    /\ callSessions[sessions[fsmLast.call_id]].state \notin {"ended", "idle"}
    /\ fsmLast.event \notin DOMAIN transitions[callSessions[sessions[fsmLast.call_id]].state]
    /\ Len(callSessions[sessions[fsmLast.call_id]].events) > 0
    /\ fsmRet = FALSE

(***************************************************************************)
(* Properties of the JWT validation                                        *)
(***************************************************************************)

\* C4: of the validations that present the same nonce, at most one passes
\* within the nonce TTL of 120 s, however the validations interleave: a
\* validation returns True only if no validation with that nonce was accepted
\* less than NONCE_TTL seconds before.
C4_NonceOnce ==
    [][\A v \in Validators :
          (vpc[v] = "setnx" /\ vpc'[v] = "idle" /\ vret'[v] = "True") =>
              \A key \in DOMAIN accepts :
                  key = vtoken[v]["nonce"] => now - accepts[key].at >= NONCE_TTL]_vars

\* C4 witness: one validation was accepted and, while its nonce key is still
\* live, another validation presenting that nonce was rejected as a replay.
C4_Witness ==
    \E v, w \in Validators :
        /\ v # w
        /\ vret[v] = "True"
        /\ vret[w] = "False:replay"
        /\ \E key \in DOMAIN accepts : KeyLive(redis, key, now)

\* C6 (as claimed): every accepted token carries iss, aud, call_id, iat, exp
\* and nonce, its call_id is the path's, its exp was not in the past when it
\* was validated, exp - iat and the token's age are at most
\* JWT_MAX_TTL_SECONDS, and no token is accepted a second time.
C6_AcceptedOnlyWithAllClaims ==
    \A key \in DOMAIN accepts :
        LET a == accepts[key]
            p == a.payload
        IN  /\ {"iss", "aud", "call_id", "iat", "exp", "nonce"} \subseteq DOMAIN p
            /\ p["call_id"] = "c1"
            /\ p["exp"] >= a.at
            /\ p["exp"] - p["iat"] <= JWT_MAX_TTL_SECONDS
            /\ a.at - p["iat"] <= JWT_MAX_TTL_SECONDS
            /\ a.replays = 0

(***************************************************************************)
(* Properties of the gateway's connection lifecycle                        *)
(***************************************************************************)

\* C5: with DEV_ALLOW_NO_JWT false, a connection has a Session constructed and
\* registered, has open_provider_session run and is sent `connected` only when
\* its first frame carried a JWT that _validate_jwt accepted; a connection
\* whose first frame carried no JWT or a refused one is closed with code 1008.
C5_NoSessionWithoutJwt ==
    ~devAllowNoJwt =>
        \A c \in Conns :
            /\ (\/ c \in DOMAIN gwSessions
                \/ \E call_id \in DOMAIN active_sessions : active_sessions[call_id] = c
                \/ "connected" \in sent[c]) => authResult[c] = "ok"
            /\ authResult[c] = "failed" => (ws[c] = "closed" /\ wsCode[c] = 1008)

\* C5 witness: without the DEV switch, one connection was refused on its first
\* frame and closed with 1008 with no session made for it, and another passed
\* validation, had its provider session opened and was sent `connected`.
C5_Witness ==
    /\ ~devAllowNoJwt
    /\ \E c, d \in Conns :
          /\ authResult[c] = "failed" /\ wsCode[c] = 1008 /\ c \notin DOMAIN gwSessions
          /\ authResult[d] = "ok" /\ d \in DOMAIN gwSessions
          /\ gwSessions[d].open_called /\ "connected" \in sent[d]

\* C9 (as claimed): whatever the interleaving of two connections, a Session is
\* closed and its registry entry removed only by the code of the connection
\* that registered it (its own stop or its own teardown).
C9_TeardownOnlyOwnSession ==
    \A c \in DOMAIN gwSessions :
        /\ gwSessions[c].closedBy \subseteq {c}
        /\ gwSessions[c].removedBy \subseteq {c}

\* C10 (as claimed): while a call is active on a connection (in its frame
\* loop, with an open provider session), a stop, barge_in or teardown of a
\* connection of another call neither closes the provider that call uses nor
\* sends it an interrupt.
C10_BackendIsolation ==
    [][\A d \in Conns :
          (/\ cpc[d] = "loop" /\ ws[d] = "open"
           /\ gwSessions[d].provider_session # None /\ provider.is_connected
           /\ gwLast'.conn # d
           /\ gwLast'.op \in {"stop", "barge_in", "teardown"}
           /\ ccall[gwLast'.conn] # ccall[d])
          => (/\ provider'.is_connected
              /\ provider'.interrupts = provider.interrupts)]_vars

(***************************************************************************)
(* Properties of the frame loop                                            *)
(***************************************************************************)

\* C7: no frame longer than MAX_FRAME_SIZE is given to session.handle_event or
\* to the provider's send_audio, and after the loop has received such a frame
\* the websocket is open and the loop goes on.
C7_OversizedNeverDispatched ==
    /\ \A size \in DOMAIN handled \cup DOMAIN forwarded : size <= MAX_FRAME_SIZE
    /\ (fLast.op = "frame" /\ fLast.size > MAX_FRAME_SIZE)
           => (fws = "open" /\ fpc # "done")

\* C7 witness: the last frame was longer than MAX_FRAME_SIZE and was dropped at
\* the frame-size check, on a connection that has had a frame of exactly
\* MAX_FRAME_SIZE forwarded to the provider.
C7_Witness ==
    /\ fLast.op = "frame"
    /\ fLast.size > MAX_FRAME_SIZE
    /\ fLast.outcome = "frame_size"
    /\ MAX_FRAME_SIZE \in DOMAIN forwarded
    /\ fws = "open"

\* C8: in every window of one second (the clock counts whole seconds, so the
\* instants t and t+1) at most RATE_LIMIT_MSGS_PER_SEC frames get past the
\* message-rate gate; and a frame received when that many have passed in the
\* last second is answered with rate_limit_exceeded, passes nothing on to
\* handle_event or send_audio, and leaves the websocket open.
C8_MessageRateGate ==
    [][LET count(p, t) == IF t \in DOMAIN p THEN p[t] ELSE 0
       IN  /\ \A t \in DOMAIN passed' :
                 count(passed', t) + count(passed', t + 1) <= RATE_LIMIT_MSGS_PER_SEC
           /\ (/\ framesSeen' = framesSeen + 1
               /\ count(passed, now - 1) + count(passed, now) >= RATE_LIMIT_MSGS_PER_SEC)
              => (/\ Len(fsent') = Len(fsent) + 1
                  /\ fsent'[Len(fsent')].type = "rate_limit_exceeded"
                  /\ passed' = passed
                  /\ handled' = handled
                  /\ forwarded' = forwarded
                  /\ fws' = "open")]_vars

\* C8 witness: RATE_LIMIT_MSGS_PER_SEC frames have passed the gate within the
\* last second, part of them a second ago, and the frame received after them
\* was refused at the message-rate gate with the websocket left open.
C8_Witness ==
    /\ fLast.op = "frame"
    /\ fLast.outcome = "messages_per_sec"
    /\ now - 1 \in DOMAIN passed
    /\ now \in DOMAIN passed
    /\ passed[now - 1] + passed[now] = RATE_LIMIT_MSGS_PER_SEC
    /\ fsent # <<>>
    /\ fws = "open"

(***************************************************************************)
(* Properties of the session's event handling                              *)
(***************************************************************************)

\* C11 (as claimed): the downstream pump runs beside the frame loop.  The
\* frames are dispatched in receipt order; while the provider's stream is
\* open, every frame received is eventually dispatched (or the connection
\* ends); and every event the Realtime Session emits while the connection is
\* up is eventually forwarded to the client (or the connection ends).
C11_PumpConcurrent ==
    /\ [](sDispatched = SubSeq(sReceived, 1, Len(sDispatched)))
    /\ \A n \in 1..MaxClientFrames :
          (Len(sReceived) >= n /\ sStreamOpen) ~> (Len(sDispatched) >= n \/ spc = "done")
    /\ \A n \in 1..MaxBackendEvents :
          (Len(sEmitted) >= n /\ spc # "done") ~> (Len(sForwarded) >= n \/ spc = "done")

\* C12 (as claimed): the pump forwards the events to the client in the order
\* the Realtime Session emitted them, and every forwarded event has been given
\* to the FSM, in that same order.
C12_ForwardedInOrderAndFed ==
    /\ sForwarded = SubSeq(sEmitted, 1, Len(sForwarded))
    /\ sFed = sForwarded

\* C13 (as claimed): the handling of a dispatched barge_in calls cancel() on
\* the provider session, then drives the FSM, then sends one barge_in_ack.
C13_BargeInCancelFsmAck ==
    (sDispatched # <<>> /\ sDispatched[Len(sDispatched)] = "barge_in")
        => SelectSeq(sCalls, LAMBDA call : call \in {"provider.cancel",
                                                    "fsm.process_barge_in",
                                                    "send:barge_in_ack"})
           = <<"provider.cancel", "fsm.process_barge_in", "send:barge_in_ack">>

(***************************************************************************)
(* Properties of barge-in cancellation (Part 6)                            *)
(***************************************************************************)

\* C14 (as claimed): once cancel() on barge-in has returned, the output queued
\* for the interrupted turn is gone (nothing of an earlier turn waits on the
\* provider's websocket or on Piper's audio_queue) and no tts_audio event of
\* an interrupted turn is emitted.
C14_CancelDropsQueuedOutput ==
    /\ \A i \in 1..Len(wsBuffer) : wsBuffer[i].turn = pTurn
    /\ \A i \in 1..Len(audio_queue) : audio_queue[i] = lTurn
    /\ \A i \in 1..Len(tEmitted) :
          tEmitted[i].type = "tts_audio" => tEmitted[i].turn = tEmitted[i].at

(***************************************************************************)
(* Properties of the active-calls gauge (Part 3)                           *)
(***************************************************************************)

\* C15 (as claimed): after any sequence of admissions, rejections and
\* teardowns, tom_calls_active is not negative and is the number of
\* connections that passed the admission gates and whose handler has not yet
\* finished its teardown.
C15_CallsActiveCountsAdmitted ==
    /\ calls_active >= 0
    /\ calls_active = Cardinality({c \in Conns : cpc[c] \notin {"new", "done"}})

(***************************************************************************)
(* Properties of the provider session with fallback (Part 7)               *)
(***************************************************************************)

\* FALLBACK_ERROR_BURST errors were raised on the provider path with less than
\* FALLBACK_ERROR_WINDOW seconds from the first of them to the last.
ProviderBurst ==
    \E i \in 1..Len(foErrors) :
        /\ i + FALLBACK_ERROR_BURST - 1 <= Len(foErrors)
        /\ foErrors[i + FALLBACK_ERROR_BURST - 1] - foErrors[i] < FALLBACK_ERROR_WINDOW

\* C16: once FALLBACK_ERROR_BURST errors have occurred on the provider path
\* within FALLBACK_ERROR_WINDOW seconds the wrapper has cut over
\* (current_backend is local and a local session exists); the cutover closes
\* the provider and opens one new local session; every send_audio, send_event
\* and recv made after the cutover works on the local session; and an error
\* cuts over only when it completes such a burst.
C16_ErrorBurstCutsOver ==
    /\ [](ProviderBurst => (current_backend = "local" /\ fallback_session > 0))
    /\ []((foLast.op \in FoSendOps \cup {"recv"} /\ foLast.was = "local") => foLast.on = "local")
    /\ [][(current_backend = "provider" /\ current_backend' = "local")
             => /\ ~foProvider'.is_connected
                /\ fallback_session' = fallback_session + 1
                /\ foLast'.op # "open" => ProviderBurst']_vars

\* C16 witness: three errors on the provider path, not all at the same time
\* and within the window, have cut the session over, and the send_audio after
\* the cutover worked on the local session.
C16_Witness ==
    /\ ProviderBurst
    /\ foErrors[1] < foErrors[Len(foErrors)]
    /\ foProvider.connects = 1
    /\ foLast.op = "send_audio" /\ foLast.was = "local" /\ foLast.on = "local"

\* C17 (as claimed): tom_provider_failover_total goes up by one in every step
\* that cuts over (a new local session becomes the backend) and stays as it is
\* in every other step.
C17_FailoverCounterCountsCutovers ==
    [][failover_total' - failover_total = fallback_session' - fallback_session]_vars

\* C18: current_backend, once local, stays local; and while less than
\* FALLBACK_COOLDOWN_SEC have passed since the last cutover no step cuts over
\* again (fallback_session keeps the local session it has).
C18_StaysLocalDuringCooldown ==
    /\ [][current_backend = "local" => current_backend' = "local"]_vars
    /\ [][(fallback_session > 0 /\ foNow - last_failover_time < FALLBACK_COOLDOWN_SEC)
             => fallback_session' = fallback_session]_vars

\* C18 witness: on a session that had cut over, an operation ran into
\* _failover_to_local again within the cooldown and was turned away there,
\* the session staying on its local backend.
C18_Witness ==
    /\ foLast.was = "local" /\ foLast.cooldown
    /\ current_backend = "local" /\ fallback_session = 1
    /\ foNow - last_failover_time < FALLBACK_COOLDOWN_SEC

\* C19 (as claimed): open() on a session that is already open makes no new
\* provider connection, no new task and no new local session, and leaves
\* is_connected, current_backend and the backend gauge as they are.
C19_OpenIdempotent ==
    [][(foOpens' = foOpens + 1 /\ foConnected)
          => /\ foProvider'.connects = foProvider.connects
             /\ foTasks' = foTasks
             /\ fallback_session' = fallback_session
             /\ foConnected' = foConnected
             /\ current_backend' = current_backend
             /\ backend_gauge' = backend_gauge]_vars

(***************************************************************************)
(* Properties of the deploy guard (Part 8)                                 *)
(***************************************************************************)

\* C20: a value returned by select_variant_for_deployment is, when it is
\* returned, in active_variants and not in blacklisted_variants; or there is
\* no active variant that is not blacklisted, and the value is the base
\* variant.
C20_SelectedActiveNotBlacklisted ==
    dgRet.kind \in {"fallback", "new", "uncertain"}
        => \/ dgRet.value \in dgRet.active \ dgRet.blacklisted
           \/ dgRet.active \ dgRet.blacklisted = {} /\ dgRet.value = base_variant

\* C20 witness: a variant other than the base was returned through a traffic
\* split while one variant was blacklisted and another inactive.
C20_Witness ==
    /\ dgRet.kind \in {"new", "uncertain"}
    /\ dgRet.value # base_variant
    /\ dgRet.blacklisted # {}
    /\ DgVariants \ (dgRet.active \cup dgRet.blacklisted) # {}

\* C21: after any sequence of add_variant_to_deployment,
\* remove_variant_from_deployment and select_variant_for_deployment the base
\* variant is active, no variant is both active and blacklisted, and at most
\* max_active_variants variants other than the base are active; an add of a
\* blacklisted variant, an add at the limit and a remove of the base variant
\* leave the active variants as they were.
C21_DeployStateInvariant ==
    /\ [](/\ base_variant \in active_variants
          /\ blacklisted_variants \cap active_variants = {}
          /\ Cardinality(active_variants \ {base_variant}) <= max_active_variants)
    /\ [][(dgRet'.kind = "add" /\ dgRet' # dgRet
             /\ (dgRet'.value \in blacklisted_variants
                 \/ Cardinality(active_variants) >= max_active_variants + 1))
            => active_variants' = active_variants]_vars
    /\ [][(dgRet'.kind = "remove" /\ dgRet'.value = base_variant)
            => active_variants' = active_variants]_vars

\* C21 witness: with the active variants at the limit, the add of a variant
\* that is neither active nor blacklisted was refused.
C21_Witness ==
    /\ dgRet.kind = "add"
    /\ dgRet.value \notin active_variants \cup blacklisted_variants
    /\ Cardinality(active_variants) = max_active_variants + 1
    /\ blacklisted_variants = {}
    /\ active_variants # {base_variant}

(***************************************************************************)
(* Properties of the policy bandit (Part 9)                                *)
(***************************************************************************)

\* C22: after any sequence of add_variant and update with rewards in [-1, +1]
\* every known variant has alpha >= 1 and beta >= 1, and alpha + beta is its
\* total_pulls + 2.
C22_PosteriorBounds ==
    \A v \in DOMAIN alpha :
        /\ alpha[v] >= BanOne
        /\ beta[v] >= BanOne
        /\ alpha[v] + beta[v] = BanOne * (total_pulls[v] + 2)

\* C22 witness: a variant has been updated MaxPulls times, the last time with
\* the lowest reward, and both its alpha and its beta have grown.
C22_Witness ==
    \E v \in DOMAIN alpha :
        /\ total_pulls[v] = MaxPulls
        /\ alpha[v] > BanOne /\ beta[v] > BanOne
        /\ banLast.op = "update" /\ banLast.reward = -10

\* C23 (as claimed): when a call ends, its reward r is applied to the policy
\* variant chosen for the call at session creation (pulls + 1,
\* alpha + (r+1)/2, beta + 1 - (r+1)/2) and nothing of any other variant
\* changes.
C23_RewardCreditsSelectedVariant ==
    [][(banSession.on /\ ~banSession'.on)
          => LET v == banSession.policy_variant
                 r == banLast'.reward
             IN  /\ v \in DOMAIN total_pulls
                 /\ total_pulls' = [total_pulls EXCEPT ![v] = @ + 1]
                 /\ alpha' = [alpha EXCEPT ![v] = @ + (r + 10)]
                 /\ beta' = [beta EXCEPT ![v] = @ + (10 - r)]]_vars

C25_StateFileAlwaysComplete ==
    saveFile.exists =>
        /\ saveFile.written = SaveChunks
        /\ saveFile.version \in {savePrev, saveMem}

\* C26: a session record leaves the registry only when that session is in
\* ENDED; a session that has not ended is never removed, whatever the order
\* of create_session, handle_event and cleanup timers.
C26_OnlyEndedSessionsRemoved ==
    [][\A call_id \in DOMAIN sessions :
          call_id \notin DOMAIN sessions'
              => callSessions[sessions[call_id]].state = "ended"]_vars

\* C27: a stalled JWT handshake is bounded: a connection that has been admitted
\* and waits for its first frame does not wait for ever; it gets its frame or
\* is closed, and stops being counted as an active call.
C27_StalledHandshakeEnds ==
    \A c \in Conns : (cpc[c] = "auth") ~> (cpc[c] # "auth")

\* C28: in every turn, those after a barge_in or an error included, an
\* llm_token processed while the session is in THINKING moves it to SPEAKING
\* and records the time of the first token.
C28_FirstTokenStartsSpeaking ==
    [][(rtLast'.op = "llm_token" /\ rtLast' # rtLast /\ rtState = "thinking")
          => (rtState' = "speaking" /\ first_token_time' = rtNow')]_vars

\* C29: whenever a turn has ended, by tts_complete, by barge_in or by error,
\* its fields have been reset: each time the session enters THINKING for a new
\* turn the token list, the LLM response and the TTS frames are empty and the
\* times of the first token and the first audio are zero.
C29_TurnFieldsResetOnThinking ==
    [][(rtState # "thinking" /\ rtState' = "thinking")
          => /\ llm_tokens' = << >>
             /\ llm_response' = 0
             /\ tts_frames' = << >>
             /\ first_token_time' = 0
             /\ first_audio_time' = 0]_vars

\* C30: a barge_in processed while the session is BARRED causes no state
\* transition but the return from BARRED to LISTENING, whatever stt_final,
\* llm_token and tts_* events are processed during its sleep.
C30_SecondBargeInIdempotent ==
    [][\A i \in 1..Len(rtSleepers) :
          (/\ rtSleepers[i].kind = "barge_in"
           /\ rtSleepers[i].startedIn = "barred"
           /\ rtSleepers' = WithoutSleeper(i)
           /\ rtState # "error")
          => (rtState' = rtState \/ (rtState = "barred" /\ rtState' = "listening"))]_vars

\* C31: the return of an error recovery to LISTENING never cuts short a turn
\* that started after the error was recovered: when the sleep of a
\* process_error ends while the session is SPEAKING, the session stays in
\* SPEAKING.
C31_RecoveryKeepsLaterTurn ==
    [][\A i \in 1..Len(rtSleepers) :
          (/\ rtSleepers[i].kind = "error"
           /\ rtLast'.op = "error_return"
           /\ rtSleepers' = WithoutSleeper(i)
           /\ rtState = "speaking")
          => rtState' = "speaking"]_vars

\* C32: an llm_complete processed in THINKING before any llm_token of the turn
\* is treated as an error: the session does not remain in THINKING.
C32_EmptyCompletionIsError ==
    [][(rtLast'.op = "llm_complete" /\ rtLast' # rtLast
          /\ rtState = "thinking" /\ llm_tokens = << >>)
          => rtState' # "thinking"]_vars

\* C33: handle_event(BARGE_IN) on a call that is in LISTENING, THINKING or
\* SPEAKING returns True, moves the call to BARRED and adds exactly one to its
\* barge_in_count.
C33_BargeInAcceptedEverywhere ==
    [][(/\ fsmLast'.op = "handle_event"
        /\ fsmLast'.event = "barge_in"
        /\ fsmLast'.call_id \in DOMAIN sessions
        /\ callSessions[sessions[fsmLast'.call_id]].state
               \in {"listening", "thinking", "speaking"})
       => LET ref == sessions[fsmLast'.call_id]
          IN  /\ fsmRet' = TRUE
              /\ callSessions'[ref].state = "barred"
              /\ callSessions'[ref].barge_in_count = callSessions[ref].barge_in_count + 1]_vars

\* C34: the size gate comes before the message-rate gate: a message longer
\* than MAX_FRAME_SIZE is rejected by the size gate and uses none of the
\* message-rate budget, so the rate window holds no more entries for the
\* instant of its arrival than before.
C34_OversizedUsesNoRateBudget ==
    [][(framesSeen' = framesSeen + 1 /\ fLast'.size > MAX_FRAME_SIZE)
          => /\ fLast'.outcome = "frame_size"
             /\ Len(SelectSeq(rate_limits', LAMBDA ts : ts = now))
                    = Len(SelectSeq(rate_limits, LAMBDA ts : ts = now))]_vars

\* C35: the audio buffer never holds more than WS_MAX_AUDIO_BUFFER (50)
\* entries after an audio_chunk has been handled; when a chunk arrives at a
\* full buffer the oldest entry is dropped, the backpressure counter goes up by
\* one and the chunk is still passed to the Realtime Session.
C35_BoundedBufferDropsOldest ==
    /\ [](Len(audio_buffer) <= 50)
    /\ [][(/\ abChunks' = abChunks + 1
           /\ abLast'.outcome \notin {"no_provider", "decode_error"}
           /\ Len(audio_buffer) = 50)
          => (/\ audio_buffer' = Append(Tail(audio_buffer), abChunks + 1)
              /\ backpressure_total' = backpressure_total + 1
              /\ abSent' = Append(abSent, abChunks + 1))]_vars

\* C36: a selection that draws one sample u picks from the new candidates N
\* iff N is not empty and u < traffic_split_new, and otherwise picks from the
\* uncertain candidates U iff U is not empty and
\* u < traffic_split_new + traffic_split_uncertain (0.1 and 0.3).
C36_SplitThresholdsCumulative ==
    [][(/\ dgRet'.kind \in {"new", "uncertain", "raised"}
        /\ (dgRet' # dgRet \/ dgDraw' # dgDraw)
        /\ Len(dgDraw') = 1)
       => LET moved == ToBlacklist(active_variants, dgStats)
              E == (active_variants \ moved) \ (blacklisted_variants \cup moved)
              N == NewVariants(E, dgStats)
              U == UncertainVariants(E, dgStats)
              u == dgDraw'[1]
              fromN == N # {} /\ u < 10
          IN  /\ (dgRet'.kind = "new") <=> fromN
              /\ (dgRet'.kind = "uncertain") <=> (~fromN /\ U # {} /\ u < 30)]_vars

\* C37: of two authenticate_jwt calls whose tokens carry the same nonce, with
\* the nonce's key never expired, at most one returns the payload, whatever
\* the interleaving of their Redis operations.
C37_SameNonceAtMostOneSucceeds ==
    \A c \in NjCalls, e \in NjCalls :
        (/\ c # e
         /\ njNonce[c] # NoNonce
         /\ njNonce[c] = njNonce[e]
         /\ njNonce[c] \notin njExpired)
        => ~(njPc[c] = "returned" /\ njPc[e] = "returned")

\* C38: a new connection's bucket holds MAX_RATE_LIMIT tokens; with no time
\* elapsing since add_connection, the first 120 check_rate_limit calls return
\* True and the next returns False; every bucket's token count stays within
\* 0..capacity; a check on one connection changes no other connection's bucket.
C38_TokenBucketPerConnection ==
    /\ [](/\ \A c \in TbConns :
               rate_limiters[c] # NoBucket
               => /\ rate_limiters[c].tokens \in 0..MAX_RATE_LIMIT
                  /\ (tbFresh[c] = 0 => rate_limiters[c].tokens = MAX_RATE_LIMIT)
          /\ (tbLast.nth >= 0 => (tbLast.ret <=> tbLast.nth < 120)))
    /\ [][LET changed == {c \in TbConns : rate_limiters'[c] # rate_limiters[c]}
          IN  /\ Cardinality(changed) <= 1
              /\ (tbLast' # NoCheck => changed \subseteq {tbLast'.conn})]_vars

\* The 121st call on a new connection, with no time elapsed, has returned False
\* while the other connection still holds its full bucket.
C38_Witness ==
    /\ tbLast.nth = 120
    /\ ~tbLast.ret
    /\ \E c \in TbConns : c # tbLast.conn /\ rate_limiters[c] # NoBucket
                          /\ rate_limiters[c].tokens = MAX_RATE_LIMIT

\* C39: after cancel() has returned on an open local session, the session
\* goes on with later turns: the cancel event is cleared again and the VAD
\* loop is running.
C39_CancelEndsOnlyCurrentTurn ==
    lrCancelReturned ~> (~cancel_event /\ vad_task = "running")

\* C40: a variant that is blacklisted stays blacklisted through every
\* add_variant_to_deployment, remove_variant_from_deployment and
\* select_variant_for_deployment, is not active after any of them, and is not
\* what a selection returns.
C40_BlacklistedForGood ==
    [][/\ blacklisted_variants \subseteq blacklisted_variants'
       /\ blacklisted_variants \cap active_variants' = {}
       /\ (dgRet'.kind \in {"fallback", "new", "uncertain"}
           => dgRet'.value \notin blacklisted_variants \cup blacklisted_variants')]_vars

\* C40 witness: add_variant_to_deployment was called for a blacklisted
\* variant with room left among the active ones, and the variant is still
\* blacklisted and not active.
C40_Witness ==
    /\ dgRet.kind = "add"
    /\ dgRet.value \in blacklisted_variants
    /\ dgRet.value \notin active_variants
    /\ ~AddRefusedAtLimit(active_variants)

====
